---- MODULE Spec2Model ----
(***************************************************************************)
(* Film-Scanner: the alignment core of the curses front ends.              *)
(*                                                                         *)
(*   optimized_edge_detect.py   detect_frame_gaps / _classify_alignment /  *)
(*                              get_motor_command / pixels_to_motor_steps  *)
(*   scanner_app_improved.py    FilmScanner (variant "improved")           *)
(*   Scanner_debug.py           detect_frame_gaps_debug and FilmScanner    *)
(*                              (variant "debug")                          *)
(*                                                                         *)
(* Numbers.  Python floats are modelled by exact rational arithmetic on    *)
(* integers: a percentage p = center / w * 100 is compared with a          *)
(* threshold t as 100 * center  vs  t * w.  int(x) of a float product is   *)
(* the floor of the exact value, except that binary rounding of the        *)
(* intermediate results can leave the float just below a whole exact       *)
(* value, and int() then yields one less (int((50 - 27.5) / 100 * 4000)    *)
(* is 899): IntOfFloat takes that loss as an input bit.                    *)
(***************************************************************************)
EXTENDS Integers, Sequences, FiniteSets, TLC

VARIABLES
    \* ---- FilmScanner session (scanner_app_improved.py / Scanner_debug.py)
    variant,            \* which script runs: "improved" or "debug"
    roll_name,          \* TRUE iff self.roll_name is non-empty
    frame_count,        \* self.frame_count
    position_steps,     \* self.position_steps
    pixels_per_step,    \* self.pixels_per_step, a ratio [num, den]
    last_frame_advance, \* self.last_frame_advance: None or <<steps>>
    state_file,         \* contents of .scan_state.json: None or <<record>>
    status_msg,         \* self.status_msg, by the kind of message
    \* ---- run(): position of the key handler in progress
    pc,                 \* "idle", "align" (inside the for loop), "capture"
    handler,            \* key being handled: "none", "A", "SPACE"
    attempt,            \* iterations of the for loop completed
    aligned,            \* the SPACE handler's local flag
    serial_out,         \* last line written to the Arduino: None or <<cmd>>
    keys,               \* keys run() has read with getch() so far
    \* ---- /tmp/preview.jpg and what the detector made of it
    image,              \* [readable, w, left, right, fl]: the preview file
    out_opt,            \* detect_frame_gaps result: None or <<result>>
    out_dbg,            \* detect_frame_gaps_debug result: None or <<result>>
    out_cmd,            \* get_motor_command result: None or <<cmd>>
    preview_failures,   \* history: failed previews in a row, up to now, in
                        \* the alignment loop that ran last
    motor_failed,       \* history: a write of a motor command has failed in
                        \* the alignment loop that ran last
    cancel_at,          \* history: None, or <<n>>: 'q' or ESC was typed
                        \* while an alignment loop ran, after n of its
                        \* iterations had finished
    measured,           \* history: steps_moved and pixels_moved as the
                        \* handler that ran last took them in
                        \* calibrate_frame_spacing, None or
                        \* <<[steps, pixels]>>
    \* ---- the pixel-to-step conversions called on their own
    distances,          \* <<d1, d2>>: two pixel distances, d1 <= d2
    out_steps,          \* None or <<[by, steps]>>: the conversion called
                        \* and its step counts for <<d1, d2>>
    \* ---- FilmScanner of scanner_app_v2.py (variant "v2"), web_app.py
    \* ---- ("web") and scanner_hybrid.py ("hybrid")
    position,           \* self.position
    frame_advance,      \* self.frame_advance: None or <<steps>>
    mode,               \* self.mode: "manual" or "calibrated"
    strip_count,        \* self.strip_count
    frames_in_strip,    \* self.frames_in_strip
    frame1_pos,         \* calibration: frame1_pos (start_pos in
                        \* scanner_hybrid.py), None or <<position>>
    cal_result,         \* how the calibration ended that the last handler
                        \* ran to its end ("none": it ran none)
    arduino,            \* TRUE iff self.arduino is an open connection
    motor_writes,       \* times the last handler's last send() wrote its
                        \* command
    \* ---- FilmScanner of web_app_preview_stream.py and its threads
    camera_op_lock,     \* TRUE iff self.camera_op_lock is locked
    preview_pc,         \* where the preview worker thread is
    preview_stop,       \* self._preview_stop is set
    last_frame,         \* TRUE iff self._last_frame holds a JPEG
    capture_pc,         \* where each request thread is in capture_image
    capture_depth,      \* 0, or 1 inside capture_image(retry=False)
    last_capture_failed,\* self.last_capture_failed
    status_pc,          \* where the /api/status request thread is
    camera_connected,   \* self.camera_connected
    viewfinder_enabled, \* self.viewfinder_enabled
    \* ---- FilmScannerApp of scanner_desktop.py
    captures,           \* history: images the camera has taken for the
                        \* roll since its counters were last zeroed
    \* ---- the run-length loop of the gap detectors
    gap_mask,           \* gap_mask / bright_mask: one BOOLEAN per column
    out_gaps,           \* None, or <<gaps>> as the loop left the list
    \* ---- the strip workflow
    cal_succeeded,      \* history: a calibration of this roll has
                        \* returned success
    \* ---- the preview worker threads of web_app_preview_stream.py
    worker_pc,          \* where each _preview_loop thread stands
    preview_thread,     \* self._preview_thread: None or <<worker>>
    ctl_pc,             \* the request thread in start_preview/stop_preview
    \* ---- consecutive captures
    steps_since_shot,   \* history: the steps of the H commands written
                        \* to the motor since the last successful capture
    \* ---- scanner_hybrid.py, the verification loop of capture_frame
    has_cv2,            \* HAS_CV2: the import of cv2 succeeded
    out_verify,         \* None, or <<what the last capture_frame's
                        \* verification loop did>>
    \* ---- canon_wifi.py, the connection monitor
    wifi_connected,     \* self.connected
    camera_ip,          \* TRUE iff self.camera_ip is set
    monitor_thread,     \* self.connection_check_thread: None or <<id>>
    monitors,           \* per thread: pc and its consecutive_failures
    lost_calls,         \* history: times the connection was declared lost
    fail_run            \* history: failed connection checks since the
                        \* last successful one

sessionVars == <<variant, roll_name, frame_count, position_steps,
                 pixels_per_step, last_frame_advance, state_file, status_msg>>
runVars == <<pc, handler, attempt, aligned, serial_out, keys>>
detectVars == <<image, out_opt, out_dbg, out_cmd>>
calVars == <<measured>>
alignVars == <<preview_failures, motor_failed, cancel_at>>
stepVars == <<distances, out_steps>>
manualVars == <<position, frame_advance, mode, strip_count, frames_in_strip,
                frame1_pos, cal_result, arduino, motor_writes>>
streamVars == <<camera_op_lock, preview_pc, preview_stop, last_frame,
                capture_pc, capture_depth, last_capture_failed, status_pc,
                camera_connected, viewfinder_enabled>>
\* The variables of the programs modelled after scanner_hybrid.py.
countVars == <<captures>>
gapVars == <<gap_mask, out_gaps>>
previewVars == <<worker_pc, preview_thread, ctl_pc>>
shotVars == <<steps_since_shot>>
verifyVars == <<has_cv2, out_verify>>
monitorVars == <<wifi_connected, camera_ip, monitor_thread, monitors,
                 lost_calls, fail_run>>
tailVars == <<cal_succeeded, previewVars, shotVars, verifyVars,
              monitorVars>>
laterVars == <<countVars, gapVars, tailVars>>
farVars == <<streamVars, laterVars>>
otherVars == <<calVars, alignVars, stepVars, manualVars, farVars>>
vars == <<sessionVars, runVars, detectVars, otherVars>>

\* Python's None, for an optional value held as a sequence of length <= 1.
None == <<>>
Some(x) == <<x>>
Val(o) == o[1]

-----------------------------------------------------------------------------
(* Bounds of the model.                                                    *)

\* Captured frames per behaviour.
MaxFrames == 1
\* The tracked position stays within 0 .. MaxPosition.
MaxPosition == 1000
\* Keys pressed in a session.
MaxKeys == 3

-----------------------------------------------------------------------------
(* Program constants.                                                      *)

TARGET_CENTER_MIN == 40
TARGET_CENTER_MAX == 60
TARGET_CENTER_IDEAL == 50
EDGE_ZONE == 15
MAX_GAP_SIZE == 100
FINE_TUNE_MOVEMENT == 30
UNCERTAIN_MOVEMENT == 50
RIGHT_ONLY_FAR == 75
LEFT_ONLY_NEAR == 25
DEFAULT_COARSE_STEPS == 100
DEFAULT_MEDIUM_STEPS == 50
DEFAULT_FINE_STEPS == 15

DBG_SMALL_GAP == 40
DBG_RIGHT_EDGE == 85
DBG_RIGHT_ONLY_FAR == 70
DBG_LEFT_ONLY_NEAR == 30
DBG_UNCALIBRATED_MAX == 100
DBG_ABSOLUTE_MAX == 300

MIN_GAP_WIDTH == 10
MAX_GAP_WIDTH == 250

fine_step == 8
coarse_step == 64
steps_per_frame == 1200

ALIGN_ATTEMPTS_IMPROVED == 20
ALIGN_ATTEMPTS_DEBUG == 15

-----------------------------------------------------------------------------
(* Arithmetic.                                                             *)

\* Fault: int() rounding up instead of truncating.
IntOfFloat_rounding_up(num, den, fl) == (num + den - 1) \div den

\* int(x) for a float x >= 0 whose exact value is num / den: the floor, or
\* one less when the exact value is whole and positive and rounding lost
\* (fl = 1).
IntOfFloat(num, den, fl) ==
    IF num % den = 0 /\ num > 0 THEN (num \div den) - fl ELSE num \div den

\* int(w * 0.3), int(w * 0.4), int(w * 0.5), int(n * 0.8), int(n * 0.85):
\* for these factors the float product truncates to the exact floor.
IntOfScaled(n, num, den) == (n * num) \div den

RECURSIVE GCD(_, _)
GCD(a, b) == IF b = 0 THEN a ELSE GCD(b, a % b)

RECURSIVE IsPowerOfTwo(_)
IsPowerOfTwo(n) == IF n = 1 THEN TRUE
                   ELSE IF n % 2 = 1 THEN FALSE ELSE IsPowerOfTwo(n \div 2)

\* A ratio num / den is held exactly by a float when its reduced denominator
\* is a power of two (2.0, 0.5); otherwise pixels_moved / steps_moved is
\* rounded when it is stored.
ExactFloat(r) == IsPowerOfTwo(r.den \div GCD(r.num, r.den))


-----------------------------------------------------------------------------
(* optimized_edge_detect.py                                                *)

\* A detected gap: centre column and width in pixels.  Its 'percent' is
\* center / w * 100.
Gap(c, wd) == [center |-> c, width |-> wd]

\* A detection result.  movement is None for 'movement': None and for a
\* result without that key; frame_center is None when no gap was found.
Result(st, act, mv, fc, lg, rg) ==
    [status |-> st, action |-> act, movement |-> mv,
     frame_center |-> fc, left_gap |-> lg, right_gap |-> rg]

\* frame_center of detect_frame_gaps: the midpoint of the two gaps, or an
\* estimate 30% of the width away from the only gap.
frame_center_of(left_gap, right_gap, w) ==
    IF left_gap # None /\ right_gap # None
    THEN Some((Val(left_gap).center + Val(right_gap).center) \div 2)
    ELSE IF left_gap # None
    THEN Some(Val(left_gap).center + IntOfScaled(w, 3, 10))
    ELSE IF right_gap # None
    THEN Some(Val(right_gap).center - IntOfScaled(w, 3, 10))
    ELSE None

\* _classify_alignment, the tests of case 1.  A gap's 'percent' and
\* frame_center_percent are compared with a threshold t as
\* 100 * pixels against t * img_width.
left_at_edge(lg, img_width) == 100 * lg.center < EDGE_ZONE * img_width

right_at_edge(rg, img_width) ==
    100 * rg.center > (100 - EDGE_ZONE) * img_width

gaps_small(lg, rg) == lg.width < MAX_GAP_SIZE /\ rg.width < MAX_GAP_SIZE

\* Fault: only a frame centred exactly at 50% counts as centred.
frame_centered_exactly(fc, img_width) ==
    100 * fc = TARGET_CENTER_IDEAL * img_width

frame_centered(fc, img_width) ==
    /\ TARGET_CENTER_MIN * img_width <= 100 * fc
    /\ 100 * fc <= TARGET_CENTER_MAX * img_width

\* A decision of _classify_alignment.
Decision(st, act, mv) == [status |-> st, action |-> act, movement |-> mv]

\* Case 1: both gaps detected.  fc is the frame centre in pixels.
classify_both(lg, rg, fc, img_width, fl) ==
    IF /\ left_at_edge(lg, img_width) /\ right_at_edge(rg, img_width)
       /\ gaps_small(lg, rg) /\ frame_centered(fc, img_width)
    THEN Decision("PERFECT_ALIGNMENT", "CAPTURE", None)
    ELSE IF frame_centered(fc, img_width) /\ gaps_small(lg, rg)
    THEN Decision("GOOD_ALIGNMENT", "CAPTURE_OK", None)
    ELSE IF 100 * fc < TARGET_CENTER_MIN * img_width
    THEN Decision("FRAME_LEFT", "ADVANCE_MEDIUM",
             Some(IntOfFloat(TARGET_CENTER_IDEAL * img_width - 100 * fc,
                             100, fl)))
    ELSE IF 100 * fc > TARGET_CENTER_MAX * img_width
    THEN Decision("FRAME_RIGHT", "BACKUP_MEDIUM",
             Some(IntOfFloat(100 * fc - TARGET_CENTER_IDEAL * img_width,
                             100, fl)))
    ELSE IF lg.width > rg.width
    THEN Decision("NEEDS_FINE_TUNE", "ADVANCE_FINE", Some(FINE_TUNE_MOVEMENT))
    ELSE Decision("NEEDS_FINE_TUNE", "BACKUP_FINE", Some(FINE_TUNE_MOVEMENT))

\* Fault: case 2 with the directions of its two branches exchanged.
classify_right_only_reversed(rg, img_width, fl) ==
    IF 100 * rg.center > RIGHT_ONLY_FAR * img_width
    THEN Decision("FRAME_ENTERING_LEFT", "ADVANCE_MEDIUM",
             Some(IntOfFloat(100 * rg.center - TARGET_CENTER_IDEAL * img_width,
                             100, fl)))
    ELSE Decision("MULTIPLE_FRAMES", "BACKUP_FINE",
             Some(IntOfScaled(img_width, 3, 10)))

\* Case 2: only the right gap is visible.
classify_right_only(rg, img_width, fl) ==
    IF 100 * rg.center > RIGHT_ONLY_FAR * img_width
    THEN Decision("FRAME_ENTERING_LEFT", "BACKUP_FINE",
             Some(IntOfFloat(100 * rg.center - TARGET_CENTER_IDEAL * img_width,
                             100, fl)))
    ELSE Decision("MULTIPLE_FRAMES", "ADVANCE_MEDIUM",
             Some(IntOfScaled(img_width, 3, 10)))

\* Fault: case 3 without its else branch, so that a left gap at 25% or
\* beyond gets no decision.
classify_left_only_no_else(lg, img_width, fl) ==
    IF 100 * lg.center < LEFT_ONLY_NEAR * img_width
    THEN Decision("FRAME_EXITING_RIGHT", "ADVANCE_COARSE",
             Some(IntOfFloat(TARGET_CENTER_IDEAL * img_width - 100 * lg.center,
                             100, fl)))
    ELSE Decision("NONE", "NONE", None)

\* Case 3: only the left gap is visible.
classify_left_only(lg, img_width, fl) ==
    IF 100 * lg.center < LEFT_ONLY_NEAR * img_width
    THEN Decision("FRAME_EXITING_RIGHT", "ADVANCE_COARSE",
             Some(IntOfFloat(TARGET_CENTER_IDEAL * img_width - 100 * lg.center,
                             100, fl)))
    ELSE Decision("UNCERTAIN", "ADVANCE_FINE", Some(UNCERTAIN_MOVEMENT))

\* Fault: case 4 advancing by half the width.
classify_none_half_width(img_width) ==
    Decision("NO_GAPS_DETECTED", "ADVANCE_COARSE",
             Some(IntOfScaled(img_width, 5, 10)))

\* Case 4: no gaps detected.
classify_none(img_width) ==
    Decision("NO_GAPS_DETECTED", "ADVANCE_COARSE",
             Some(IntOfScaled(img_width, 4, 10)))

\* _classify_alignment.  frame_center stands for frame_center_percent =
\* frame_center / img_width * 100.
classify_alignment(left_gap, right_gap, frame_center, img_width, fl) ==
    IF left_gap # None /\ right_gap # None
    THEN classify_both(Val(left_gap), Val(right_gap), Val(frame_center),
                       img_width, fl)
    ELSE IF right_gap # None /\ left_gap = None
    THEN classify_right_only(Val(right_gap), img_width, fl)
    ELSE IF left_gap # None /\ right_gap = None
    THEN classify_left_only(Val(left_gap), img_width, fl)
    ELSE classify_none(img_width)

\* detect_frame_gaps, from the selected left and right gap on: the ERROR
\* result for an unreadable image, else the classification with the gap
\* information added.
detect_frame_gaps(readable, left_gap, right_gap, w, fl) ==
    IF ~readable
    THEN Result("ERROR", "Cannot read image", None, None, None, None)
    ELSE LET fc == frame_center_of(left_gap, right_gap, w)
             c == classify_alignment(left_gap, right_gap, fc, w, fl)
         IN  Result(c.status, c.action, c.movement, fc, left_gap, right_gap)

\* pixels_to_motor_steps: int(pixels / pixels_per_step).  The quotient of
\* a division by an exactly held ratio is correctly rounded, so a whole
\* quotient is not lost.
pixels_to_motor_steps(pixels, pps, fl) ==
    IntOfFloat(pixels * pps.den, pps.num, IF ExactFloat(pps) THEN 0 ELSE fl)

\* A motor command: op is the command letter ("none" for 'command': None),
\* steps the number that follows it (0 for the bare letter 'F').
Cmd(op, n) == [op |-> op, steps |-> n]

\* steps = pixels_to_motor_steps(movement, ...) if movement else default
StepsOrDefault(movement, pps, fl, default) ==
    IF movement # None /\ Val(movement) # 0
    THEN pixels_to_motor_steps(Val(movement), pps, fl)
    ELSE default

\* Fault: get_motor_command not recognising CAPTURE_OK, which then gets
\* the default command.
get_motor_command_capture_only(result, pps, fl) ==
    IF result.action = "CAPTURE"
    THEN Cmd("none", 0)
    ELSE IF result.action = "ADVANCE_COARSE"
    THEN Cmd("H", StepsOrDefault(result.movement, pps, fl, DEFAULT_COARSE_STEPS))
    ELSE IF result.action = "ADVANCE_MEDIUM"
    THEN Cmd("H", StepsOrDefault(result.movement, pps, fl, DEFAULT_MEDIUM_STEPS))
    ELSE IF result.action = "ADVANCE_FINE"
    THEN Cmd("H", StepsOrDefault(result.movement, pps, fl, DEFAULT_FINE_STEPS))
    ELSE IF result.action = "BACKUP_MEDIUM"
    THEN Cmd("h", StepsOrDefault(result.movement, pps, fl, DEFAULT_MEDIUM_STEPS))
    ELSE IF result.action = "BACKUP_FINE"
    THEN Cmd("h", StepsOrDefault(result.movement, pps, fl, DEFAULT_FINE_STEPS))
    ELSE Cmd("F", 0)

\* get_motor_command
get_motor_command(result, pps, fl) ==
    IF result.action \in {"CAPTURE", "CAPTURE_OK"}
    THEN Cmd("none", 0)
    ELSE IF result.action = "ADVANCE_COARSE"
    THEN Cmd("H", StepsOrDefault(result.movement, pps, fl, DEFAULT_COARSE_STEPS))
    ELSE IF result.action = "ADVANCE_MEDIUM"
    THEN Cmd("H", StepsOrDefault(result.movement, pps, fl, DEFAULT_MEDIUM_STEPS))
    ELSE IF result.action = "ADVANCE_FINE"
    THEN Cmd("H", StepsOrDefault(result.movement, pps, fl, DEFAULT_FINE_STEPS))
    ELSE IF result.action = "BACKUP_MEDIUM"
    THEN Cmd("h", StepsOrDefault(result.movement, pps, fl, DEFAULT_MEDIUM_STEPS))
    ELSE IF result.action = "BACKUP_FINE"
    THEN Cmd("h", StepsOrDefault(result.movement, pps, fl, DEFAULT_FINE_STEPS))
    ELSE Cmd("F", 0)

-----------------------------------------------------------------------------
(* Scanner_debug.py: detect_frame_gaps_debug                               *)

\* detect_frame_gaps_debug, from the selected left and right gap on.  Here
\* frame_center_percent = ((lc + rc) / 2) / w * 100 is not truncated.
detect_frame_gaps_debug(readable, left_gap, right_gap, w, fl) ==
    IF ~readable
    THEN Result("ERROR", "NONE", None, None, None, None)
    ELSE IF left_gap # None /\ right_gap # None
    THEN LET lg == Val(left_gap)
             rg == Val(right_gap)
             sum == lg.center + rg.center
             dbg_left_at_edge == 100 * lg.center < EDGE_ZONE * w
             dbg_right_at_edge == 100 * rg.center > DBG_RIGHT_EDGE * w
             dbg_gaps_small == lg.width < DBG_SMALL_GAP /\ rg.width < DBG_SMALL_GAP
         IN  IF dbg_left_at_edge /\ dbg_right_at_edge /\ dbg_gaps_small
             THEN Result("ALIGNED", "CAPTURE", Some(0), None,
                         left_gap, right_gap)
             ELSE IF 100 * sum < 2 * TARGET_CENTER_MIN * w
             THEN Result("FRAME_LEFT", "ADVANCE_MEDIUM",
                         Some(IntOfFloat(
                             2 * TARGET_CENTER_IDEAL * w - 100 * sum, 200, fl)),
                         None, left_gap, right_gap)
             ELSE IF 100 * sum > 2 * TARGET_CENTER_MAX * w
             THEN Result("FRAME_RIGHT", "BACKUP_MEDIUM",
                         Some(IntOfFloat(
                             100 * sum - 2 * TARGET_CENTER_IDEAL * w, 200, fl)),
                         None, left_gap, right_gap)
             ELSE IF lg.width > rg.width
             THEN Result("GAPS_LARGE", "ADVANCE_FINE",
                         Some(FINE_TUNE_MOVEMENT), None, left_gap, right_gap)
             ELSE Result("GAPS_LARGE", "BACKUP_FINE",
                         Some(FINE_TUNE_MOVEMENT), None, left_gap, right_gap)
    ELSE IF right_gap # None /\ left_gap = None
    THEN IF 100 * Val(right_gap).center > DBG_RIGHT_ONLY_FAR * w
         THEN Result("ENTERING_LEFT", "BACKUP_MEDIUM",
                     Some(IntOfFloat(100 * Val(right_gap).center
                                     - TARGET_CENTER_IDEAL * w, 100, fl)),
                     None, left_gap, right_gap)
         ELSE Result("TRANSITION", "ADVANCE_COARSE",
                     Some(IntOfScaled(w, 4, 10)), None, left_gap, right_gap)
    ELSE IF left_gap # None /\ right_gap = None
    THEN IF 100 * Val(left_gap).center < DBG_LEFT_ONLY_NEAR * w
         THEN Result("EXITING_RIGHT", "ADVANCE_COARSE",
                     Some(IntOfScaled(w, 5, 10)), None, left_gap, right_gap)
         ELSE Result("UNCERTAIN", "ADVANCE_MEDIUM",
                     Some(IntOfScaled(w, 3, 10)), None, left_gap, right_gap)
    ELSE Result("NO_GAPS", "ADVANCE_COARSE",
                Some(IntOfScaled(w, 4, 10)), None, left_gap, right_gap)

-----------------------------------------------------------------------------
(* FilmScanner: state shared by both scripts.                              *)

Ratio(n, d) == [num |-> n, den |-> d]

\* self.pixels_per_step = 2.0
DefaultPixelsPerStep == Ratio(2, 1)

\* An image file: what cv2.imread and the gap search make of it.  fl is the
\* rounding loss the float evaluation of its distance suffers.
Image(readable, w, left, right, fl) ==
    [readable |-> readable, w |-> w, left |-> left, right |-> right, fl |-> fl]

\* No file at /tmp/preview.jpg (capture_preview removes it first): imread
\* returns None for it.
MissingImage == Image(FALSE, 0, None, None, 0)

PositionAfter_backward_adds(pos, cmd, v) ==
    IF cmd.op = "f" THEN pos + fine_step
    ELSE IF cmd.op = "b" THEN pos - fine_step
    ELSE IF cmd.op = "F" THEN pos + coarse_step
    ELSE IF cmd.op = "B" THEN pos - coarse_step
    ELSE IF cmd.op = "N" /\ v = "improved" THEN pos + steps_per_frame
    ELSE IF cmd.op = "R" /\ v = "improved" THEN pos - steps_per_frame
    ELSE IF cmd.op = "H" THEN pos + cmd.steps
    ELSE IF cmd.op = "h" THEN pos + cmd.steps
    ELSE IF cmd.op = "Z" THEN 0
    ELSE pos

\* send_command: the tracked position after cmd.  Both scripts track
\* f, b, F, B, H<n>, h<n>, Z; scanner_app_improved.py also N and R.
PositionAfter(pos, cmd, v) ==
    IF cmd.op = "f" THEN pos + fine_step
    ELSE IF cmd.op = "b" THEN pos - fine_step
    ELSE IF cmd.op = "F" THEN pos + coarse_step
    ELSE IF cmd.op = "B" THEN pos - coarse_step
    ELSE IF cmd.op = "N" /\ v = "improved" THEN pos + steps_per_frame
    ELSE IF cmd.op = "R" /\ v = "improved" THEN pos - steps_per_frame
    ELSE IF cmd.op = "H" THEN pos + cmd.steps
    ELSE IF cmd.op = "h" THEN pos - cmd.steps
    ELSE IF cmd.op = "Z" THEN 0
    ELSE pos

\* send_command(cmd): [serial, position] after it.  The Arduino is open
\* while run() is in its main loop.  write_ok = FALSE is an exception of
\* arduino.write: it is swallowed, nothing is sent and nothing tracked.
send_command(ser, pos, cmd, write_ok, v) ==
    IF write_ok
    THEN [serial |-> Some(cmd), position |-> PositionAfter(pos, cmd, v)]
    ELSE [serial |-> ser, position |-> pos]

\* The dict save_state writes.
SavedState(fc, pos, pps, lfa) ==
    [frame_count |-> fc, position_steps |-> pos,
     pixels_per_step |-> pps, last_frame_advance |-> lfa]

\* save_state: the file after it (state_file is set once a roll exists; a
\* failed write leaves the old file).
save_state(file, has_roll, fc, pos, pps, lfa, io_ok) ==
    IF has_roll /\ io_ok THEN Some(SavedState(fc, pos, pps, lfa)) ELSE file

\* The positions a session is followed through.
InRange(pos) == 0 <= pos /\ pos <= MaxPosition

\* run(): key = stdscr.getch() of the main loop delivered a key.
ReadKey == keys < MaxKeys /\ keys' = keys + 1

\* Fault: both loops running one iteration more.
AlignAttempts_one_more(v) ==
    IF v = "improved" THEN ALIGN_ATTEMPTS_IMPROVED + 1
    ELSE ALIGN_ATTEMPTS_DEBUG + 1

\* range(20) in scanner_app_improved.py, range(15) in Scanner_debug.py
AlignAttempts(v) ==
    IF v = "improved" THEN ALIGN_ATTEMPTS_IMPROVED ELSE ALIGN_ATTEMPTS_DEBUG

-----------------------------------------------------------------------------
(* Previews the camera delivers while a session runs.                      *)

\* What the camera shows in a session, in previews 4000 pixels wide: a
\* frame between small gaps at both edges (3% and 97%), a frame entering from the left (one gap at 90%) and
\* film with no gap in view; for scanner_app_improved.py also a centred
\* frame whose gaps are well inside the image (30% and 75%).  None of them
\* loses a pixel to float rounding.
SessionImages(v) ==
    { Image(TRUE, 4000, Some(Gap(120, 20)), Some(Gap(3880, 25)), 0),
      Image(TRUE, 4000, None, Some(Gap(3600, 30)), 0),
      Image(TRUE, 4000, None, None, 0) }
    \cup IF v = "improved"
         THEN { Image(TRUE, 4000, Some(Gap(1200, 20)),
                      Some(Gap(3000, 25)), 0) }
         ELSE {}

\* The rounding loss a division by pps can suffer.
FloatLoss(pps) == IF ExactFloat(pps) THEN {0} ELSE {0, 1}

-----------------------------------------------------------------------------
(* scanner_app_improved.py: FilmScanner                                    *)

\* Fault: smart_align_step returning True after it has moved the film.
Imp_smart_align_step_true_after_move(preview_ok, img, fl, write_ok) ==
    IF ~preview_ok
    THEN [ret |-> FALSE, image |-> MissingImage, result |-> None,
          cmd |-> None, serial |-> serial_out, position |-> position_steps,
          status |-> "Preview failed"]
    ELSE LET r == detect_frame_gaps(img.readable, img.left, img.right,
                                    img.w, img.fl)
             mc == get_motor_command(r, pixels_per_step, fl)
             sent == send_command(serial_out, position_steps, mc, write_ok,
                                  "improved")
         IN  IF r.action \in {"CAPTURE", "CAPTURE_OK"}
             THEN [ret |-> TRUE, image |-> img, result |-> Some(r),
                   cmd |-> None, serial |-> serial_out,
                   position |-> position_steps, status |-> "ALIGNED"]
             ELSE [ret |-> TRUE, image |-> img, result |-> Some(r),
                   cmd |-> Some(mc), serial |-> sent.serial,
                   position |-> sent.position,
                   status |-> IF write_ok THEN "Moving"
                              ELSE "Command error"]

\* smart_align_step: what one call returns and leaves behind.
Imp_smart_align_step(preview_ok, img, fl, write_ok) ==
    IF ~preview_ok
    THEN [ret |-> FALSE, image |-> MissingImage, result |-> None,
          cmd |-> None, serial |-> serial_out, position |-> position_steps,
          status |-> "Preview failed"]
    ELSE LET r == detect_frame_gaps(img.readable, img.left, img.right,
                                    img.w, img.fl)
             mc == get_motor_command(r, pixels_per_step, fl)
             sent == send_command(serial_out, position_steps, mc, write_ok,
                                  "improved")
         IN  IF r.action \in {"CAPTURE", "CAPTURE_OK"}
             THEN [ret |-> TRUE, image |-> img, result |-> Some(r),
                   cmd |-> None, serial |-> serial_out,
                   position |-> position_steps, status |-> "ALIGNED"]
             ELSE IF mc.op # "none"
             THEN [ret |-> FALSE, image |-> img, result |-> Some(r),
                   cmd |-> Some(mc), serial |-> sent.serial,
                   position |-> sent.position,
                   status |-> IF write_ok THEN "Moving"
                              ELSE "Command error"]
             ELSE [ret |-> TRUE, image |-> img, result |-> Some(r),
                   cmd |-> Some(mc), serial |-> serial_out,
                   position |-> position_steps, status |-> r.status]

\* run(), key 'A': auto-align only.
Imp_KeyA ==
    /\ variant = "improved" /\ pc = "idle"
    /\ ReadKey
    /\ IF ~roll_name
       THEN /\ status_msg' = "Create roll first"
            /\ UNCHANGED <<pc, handler, attempt>>
       ELSE /\ status_msg' = "Auto-aligning"
            /\ pc' = "align" /\ handler' = "A" /\ attempt' = 0
    /\ UNCHANGED <<variant, roll_name, frame_count, position_steps,
                   pixels_per_step, last_frame_advance, state_file,
                   aligned, serial_out, detectVars>>
    /\ measured' = None
    /\ UNCHANGED <<alignVars, stepVars, manualVars, farVars>>

\* run(), key SPACE: smart capture, up to the for loop.
Imp_KeySpace ==
    /\ variant = "improved" /\ pc = "idle"
    /\ ReadKey
    /\ IF ~roll_name
       THEN /\ status_msg' = "Create roll first"
            /\ UNCHANGED <<pc, handler, attempt, aligned>>
       ELSE /\ status_msg' = "Smart capture: aligning"
            /\ pc' = "align" /\ handler' = "SPACE" /\ attempt' = 0
            /\ aligned' = FALSE
    /\ UNCHANGED <<variant, roll_name, frame_count, position_steps,
                   pixels_per_step, last_frame_advance, state_file,
                   serial_out, detectVars>>
    /\ measured' = None
    /\ UNCHANGED <<alignVars, stepVars, manualVars, farVars>>

\* run(): one iteration of  for attempt in range(20)  of either handler,
\* with the break, the for-else of 'A' and the  if aligned / else  of SPACE
\* when the iteration is the last one.
Imp_for_attempt(preview_ok, img, fl, write_ok) ==
    /\ variant = "improved" /\ pc = "align"
    /\ UNCHANGED keys
    /\ attempt < AlignAttempts("improved")
    /\  LET s == Imp_smart_align_step(preview_ok, img, fl, write_ok)
             last == attempt + 1 = AlignAttempts("improved")
         IN  /\ InRange(s.position)
             /\ image' = s.image /\ out_opt' = s.result /\ out_cmd' = s.cmd
             /\ serial_out' = s.serial /\ position_steps' = s.position
             /\ attempt' = attempt + 1
             /\ IF s.ret
                THEN IF handler = "SPACE"
                     THEN /\ aligned' = TRUE /\ pc' = "capture"
                          /\ status_msg' = s.status
                          /\ UNCHANGED handler
                     ELSE /\ pc' = "idle" /\ handler' = "none"
                          /\ status_msg' = s.status
                          /\ UNCHANGED aligned
                ELSE IF last
                     THEN /\ pc' = "idle" /\ handler' = "none"
                          /\ status_msg' = IF handler = "A"
                                           THEN "Alignment timeout"
                                           ELSE "Could not align"
                          /\ UNCHANGED aligned
                     ELSE /\ status_msg' = s.status
                          /\ UNCHANGED <<pc, handler, aligned>>
    /\ UNCHANGED <<variant, roll_name, frame_count, pixels_per_step,
                   last_frame_advance, state_file, out_dbg>>
    /\ measured' = None
    /\ UNCHANGED <<stepVars, manualVars, farVars>>

Imp_AlignStep ==
    \E preview_ok \in BOOLEAN, img \in SessionImages(variant),
       fl \in FloatLoss(pixels_per_step), write_ok \in BOOLEAN :
        /\ Imp_for_attempt(preview_ok, img, fl, write_ok)
        /\ UNCHANGED alignVars

\* run(), key SPACE after the loop with aligned = True: capture_image and
\* the advance to the next frame by 85% of the learned spacing.
\* shot: "ok" the file exists, "timeout" gphoto2 timed out, "nofile".
Imp_Capture ==
    /\ variant = "improved" /\ pc = "capture" /\ aligned
    /\ UNCHANGED keys
    /\ \E shot \in {"ok", "timeout", "nofile"},
          io_ok \in BOOLEAN, write_ok \in BOOLEAN :
         IF shot = "ok"
         THEN LET adv == Cmd("H", IntOfScaled(Val(last_frame_advance), 85, 100))
                  sent == send_command(serial_out, position_steps, adv,
                                       write_ok, "improved")
                  go == last_frame_advance # None
                        /\ Val(last_frame_advance) # 0
              IN  /\ frame_count < MaxFrames
                  /\ frame_count' = frame_count + 1
                  /\ state_file' = save_state(state_file, roll_name,
                         frame_count + 1, position_steps, pixels_per_step,
                         last_frame_advance, io_ok)
                  /\ IF go
                     THEN /\ InRange(sent.position)
                          /\ serial_out' = sent.serial
                          /\ position_steps' = sent.position
                          /\ status_msg' = "Ready for next"
                     ELSE /\ status_msg' = "Frame complete"
                          /\ UNCHANGED <<serial_out, position_steps>>
         ELSE /\ status_msg' = "Capture failed"
              /\ UNCHANGED <<frame_count, state_file, serial_out,
                             position_steps>>
    /\ pc' = "idle" /\ handler' = "none"
    /\ UNCHANGED <<variant, roll_name, pixels_per_step, last_frame_advance,
                   attempt, aligned, detectVars>>
    /\ measured' = None
    /\ UNCHANGED <<alignVars, stepVars, manualVars, farVars>>

\* not result.get('frame_center'): no frame centre, or a centre of 0.
HasFrameCenter(r) == r.frame_center # None /\ Val(r.frame_center) # 0

Abs(x) == IF x < 0 THEN -x ELSE x

\* calibrate_frame_spacing, lines 278-289: the calibration values after two
\* detections r1 and r2 with the position moved from pos0 to pos1.
\* calibrate_frame_spacing, lines 275-276: the two deltas it measures.
Imp_measured(r1, r2, pos0, pos1) ==
    [steps |-> pos1 - pos0,
     pixels |-> Abs(Val(r2.frame_center) - Val(r1.frame_center))]

\* Fault: a positive step delta alone is stored as the frame advance.
Imp_calibration_steps_only(r1, r2, pos0, pos1, pps, lfa) ==
    LET steps_moved == pos1 - pos0
        pixels_moved == Abs(Val(r2.frame_center) - Val(r1.frame_center))
    IN  IF steps_moved > 0 /\ pixels_moved > 0
        THEN [pps |-> Ratio(pixels_moved, steps_moved),
              lfa |-> IF r2.action \in {"CAPTURE", "CAPTURE_OK",
                                        "NEEDS_FINE_TUNE"}
                      THEN Some(steps_moved) ELSE lfa]
        ELSE IF steps_moved > 0
        THEN [pps |-> pps, lfa |-> Some(steps_moved)]
        ELSE [pps |-> pps, lfa |-> lfa]

Imp_calibration(r1, r2, pos0, pos1, pps, lfa) ==
    LET steps_moved == pos1 - pos0
        pixels_moved == Abs(Val(r2.frame_center) - Val(r1.frame_center))
    IN  IF steps_moved > 0 /\ pixels_moved > 0
        THEN [pps |-> Ratio(pixels_moved, steps_moved),
              lfa |-> IF r2.action \in {"CAPTURE", "CAPTURE_OK",
                                        "NEEDS_FINE_TUNE"}
                      THEN Some(steps_moved) ELSE lfa]
        ELSE [pps |-> pps, lfa |-> lfa]

\* run(), key 'C': calibrate_frame_spacing as a whole, with the scenes its
\* previews can show; the history variable measured records the two deltas
\* iff noting.
Imp_calibrate_frame_spacing(images, noting) ==
    /\ variant = "improved" /\ pc = "idle"
    /\ ReadKey
    /\ IF ~roll_name
       THEN /\ status_msg' = "Create roll first"
            /\ measured' = None
            /\ UNCHANGED <<position_steps, pixels_per_step,
                           last_frame_advance, state_file, serial_out,
                           image, out_opt>>
       ELSE /\ UNCHANGED status_msg
            /\ \E preview1 \in BOOLEAN :
               IF ~preview1
               THEN /\ image' = MissingImage /\ measured' = None
                    /\ UNCHANGED <<position_steps, pixels_per_step,
                                   last_frame_advance, state_file,
                                   serial_out, out_opt>>
               ELSE \E img1 \in images :
                 LET r1 == detect_frame_gaps(img1.readable, img1.left,
                                             img1.right, img1.w, img1.fl)
                 IN
                 IF ~HasFrameCenter(r1)
                 THEN /\ image' = img1 /\ out_opt' = Some(r1)
                      /\ measured' = None
                      /\ UNCHANGED <<position_steps, pixels_per_step,
                                     last_frame_advance, state_file,
                                     serial_out>>
                 ELSE \E write_ok \in BOOLEAN, preview2 \in BOOLEAN :
                   LET adv == Cmd("H", IntOfScaled(steps_per_frame, 8, 10))
                       sent == send_command(serial_out, position_steps, adv,
                                            write_ok, "improved")
                   IN
                   /\ InRange(sent.position)
                   /\ serial_out' = sent.serial
                   /\ position_steps' = sent.position
                   /\ IF ~preview2
                      THEN /\ image' = MissingImage /\ out_opt' = Some(r1)
                           /\ measured' = None
                           /\ UNCHANGED <<pixels_per_step,
                                          last_frame_advance, state_file>>
                      ELSE \E img2 \in images :
                        LET r2 == detect_frame_gaps(img2.readable, img2.left,
                                      img2.right, img2.w, img2.fl)
                            cal == Imp_calibration(r1, r2, position_steps,
                                      sent.position, pixels_per_step,
                                      last_frame_advance)
                        IN
                        /\ image' = img2 /\ out_opt' = Some(r2)
                        /\ IF ~HasFrameCenter(r2)
                           THEN /\ measured' = None
                                /\ UNCHANGED <<pixels_per_step,
                                       last_frame_advance, state_file>>
                           ELSE \E io_ok \in BOOLEAN :
                                /\ measured' = IF ~noting THEN None
                                       ELSE Some(Imp_measured(r1, r2,
                                           position_steps, sent.position))
                                /\ pixels_per_step' = cal.pps
                                /\ last_frame_advance' = cal.lfa
                                /\ state_file' = save_state(state_file,
                                       roll_name, frame_count, sent.position,
                                       cal.pps, cal.lfa, io_ok)
    /\ UNCHANGED <<variant, roll_name, frame_count, pc, handler, attempt,
                   aligned, out_dbg, out_cmd>>
    /\ UNCHANGED <<alignVars, stepVars, manualVars, farVars>>

Imp_KeyC == Imp_calibrate_frame_spacing(SessionImages(variant), FALSE)

\* run(), key 'N': new_roll.  entry: "cancel" no name typed; "fresh" the
\* roll's folder holds no readable state file; "continue", "startover",
\* "quit": the answer to "Found existing roll!" when load_state read one.
Imp_KeyN ==
    /\ variant = "improved" /\ pc = "idle"
    /\ ReadKey
    /\ \E entry \in {"cancel", "fresh", "continue", "startover", "quit"},
          io_ok \in BOOLEAN :
         /\ entry \in {"continue", "startover", "quit"} => state_file # None
         /\ IF entry = "cancel"
            THEN /\ status_msg' = "Cancelled"
                 /\ UNCHANGED <<roll_name, frame_count, position_steps,
                                pixels_per_step, last_frame_advance,
                                state_file>>
            ELSE IF entry \in {"continue", "quit"}
            THEN /\ roll_name' = TRUE
                 /\ frame_count' = Val(state_file).frame_count
                 /\ position_steps' = Val(state_file).position_steps
                 /\ pixels_per_step' = Val(state_file).pixels_per_step
                 /\ last_frame_advance' = Val(state_file).last_frame_advance
                 /\ status_msg' = IF entry = "continue" THEN "Resumed"
                                  ELSE status_msg
                 /\ UNCHANGED state_file
            ELSE LET pos == IF entry = "startover" THEN 0 ELSE position_steps
                     old == IF entry = "startover" THEN state_file ELSE None
                 IN  /\ roll_name' = TRUE
                     /\ frame_count' = 0
                     /\ position_steps' = pos
                     /\ pixels_per_step' = DefaultPixelsPerStep
                     /\ last_frame_advance' = None
                     /\ status_msg' = "Position first frame"
                     /\ state_file' = save_state(old, TRUE, 0, pos,
                            DefaultPixelsPerStep, None, io_ok)
    /\ UNCHANGED <<variant, pc, handler, attempt, aligned, serial_out,
                   detectVars>>
    /\ measured' = None
    /\ UNCHANGED <<alignVars, stepVars, manualVars, farVars>>

-----------------------------------------------------------------------------
(* Scanner_debug.py: FilmScanner                                           *)

Min(a, b) == IF a < b THEN a ELSE b

\* smart_align_step, lines 383-392: the step count for a movement in
\* pixels, limited to 100 before calibration and to 300 always.
Dbg_steps(movement, pps, lfa, fl) ==
    LET steps == pixels_to_motor_steps(movement, pps, fl)
        limited == IF lfa = None THEN Min(steps, DBG_UNCALIBRATED_MAX)
                   ELSE steps
    IN  Min(limited, DBG_ABSOLUTE_MAX)

\* smart_align_step, lines 394-399: the command for an action.
Dbg_command(action, steps) ==
    IF action \in {"ADVANCE_COARSE", "ADVANCE_MEDIUM", "ADVANCE_FINE"}
    THEN Cmd("H", steps)
    ELSE IF action \in {"BACKUP_MEDIUM", "BACKUP_FINE"}
    THEN Cmd("h", steps)
    ELSE Cmd("F", 0)

\* smart_align_step: what one call returns and leaves behind.
Dbg_smart_align_step(preview_ok, img, fl, write_ok) ==
    IF ~preview_ok
    THEN [ret |-> FALSE, image |-> MissingImage, result |-> None,
          cmd |-> None, serial |-> serial_out, position |-> position_steps,
          status |-> status_msg]
    ELSE LET r == detect_frame_gaps_debug(img.readable, img.left, img.right,
                                          img.w, img.fl)
             mc == Dbg_command(r.action,
                       Dbg_steps(Val(r.movement), pixels_per_step,
                                 last_frame_advance, fl))
             sent == send_command(serial_out, position_steps, mc, write_ok,
                                  "debug")
         IN  IF r.action = "CAPTURE"
             THEN [ret |-> TRUE, image |-> img, result |-> Some(r),
                   cmd |-> None, serial |-> serial_out,
                   position |-> position_steps, status |-> r.status]
             ELSE IF r.movement # None /\ Val(r.movement) # 0
             THEN [ret |-> FALSE, image |-> img, result |-> Some(r),
                   cmd |-> Some(mc), serial |-> sent.serial,
                   position |-> sent.position, status |-> r.status]
             ELSE [ret |-> FALSE, image |-> img, result |-> Some(r),
                   cmd |-> None, serial |-> serial_out,
                   position |-> position_steps, status |-> r.status]

\* run(), key 'A': auto-align only (allowed without calibration).
Dbg_KeyA ==
    /\ variant = "debug" /\ pc = "idle"
    /\ ReadKey
    /\ IF ~roll_name
       THEN /\ status_msg' = "Create roll first"
            /\ UNCHANGED <<pc, handler, attempt>>
       ELSE /\ status_msg' = IF last_frame_advance = None
                             THEN "WARNING: Not calibrated" ELSE status_msg
            /\ pc' = "align" /\ handler' = "A" /\ attempt' = 0
    /\ UNCHANGED <<variant, roll_name, frame_count, position_steps,
                   pixels_per_step, last_frame_advance, state_file,
                   aligned, serial_out, detectVars>>
    /\ measured' = None
    /\ UNCHANGED <<alignVars, stepVars, manualVars, farVars>>

\* run(), key SPACE: refused until calibrated, else up to the for loop.
Dbg_KeySpace ==
    /\ variant = "debug" /\ pc = "idle"
    /\ ReadKey
    /\ IF ~roll_name
       THEN /\ status_msg' = "Create roll first"
            /\ UNCHANGED <<pc, handler, attempt, aligned>>
       ELSE IF last_frame_advance = None
       THEN /\ status_msg' = "CALIBRATE FIRST"
            /\ UNCHANGED <<pc, handler, attempt, aligned>>
       ELSE /\ pc' = "align" /\ handler' = "SPACE" /\ attempt' = 0
            /\ aligned' = FALSE
            /\ UNCHANGED status_msg
    /\ UNCHANGED <<variant, roll_name, frame_count, position_steps,
                   pixels_per_step, last_frame_advance, state_file,
                   serial_out, detectVars>>
    /\ measured' = None
    /\ UNCHANGED <<alignVars, stepVars, manualVars, farVars>>

\* run(): one iteration of  for attempt in range(15)  of either handler,
\* with the break, the for-else of 'A' and the  if aligned / else  of SPACE
\* when the iteration is the last one.
Dbg_AlignStep ==
    /\ variant = "debug" /\ pc = "align"
    /\ UNCHANGED keys
    /\ attempt < AlignAttempts("debug")
    /\ \E preview_ok \in BOOLEAN, img \in SessionImages(variant),
          fl \in FloatLoss(pixels_per_step), write_ok \in BOOLEAN :
         LET s == Dbg_smart_align_step(preview_ok, img, fl, write_ok)
             last == attempt + 1 = AlignAttempts("debug")
         IN  /\ InRange(s.position)
             /\ image' = s.image /\ out_dbg' = s.result /\ out_cmd' = s.cmd
             /\ serial_out' = s.serial /\ position_steps' = s.position
             /\ attempt' = attempt + 1
             /\ IF s.ret
                THEN IF handler = "SPACE"
                     THEN /\ aligned' = TRUE /\ pc' = "capture"
                          /\ status_msg' = s.status
                          /\ UNCHANGED handler
                     ELSE /\ pc' = "idle" /\ handler' = "none"
                          /\ status_msg' = s.status
                          /\ UNCHANGED aligned
                ELSE IF last
                     THEN /\ pc' = "idle" /\ handler' = "none"
                          /\ status_msg' = "Alignment failed"
                          /\ UNCHANGED aligned
                     ELSE /\ status_msg' = s.status
                          /\ UNCHANGED <<pc, handler, aligned>>
    /\ UNCHANGED <<variant, roll_name, frame_count, pixels_per_step,
                   last_frame_advance, state_file, out_opt>>
    /\ measured' = None
    /\ UNCHANGED <<alignVars, stepVars, manualVars, farVars>>

\* run(), key SPACE after the loop with aligned = True: capture_image and
\* the advance to the next frame by 80% of the calibrated spacing.
Dbg_Capture ==
    /\ variant = "debug" /\ pc = "capture" /\ aligned
    /\ UNCHANGED keys
    /\ \E shot \in {"ok", "timeout", "nofile"},
          io_ok \in BOOLEAN, write_ok \in BOOLEAN :
         IF shot = "ok"
         THEN LET adv == Cmd("H", IntOfScaled(Val(last_frame_advance), 80, 100))
                  sent == send_command(serial_out, position_steps, adv,
                                       write_ok, "debug")
              IN  /\ frame_count < MaxFrames
                  /\ frame_count' = frame_count + 1
                  /\ state_file' = save_state(state_file, roll_name,
                         frame_count + 1, position_steps, pixels_per_step,
                         last_frame_advance, io_ok)
                  /\ InRange(sent.position)
                  /\ serial_out' = sent.serial
                  /\ position_steps' = sent.position
                  /\ status_msg' = "Frame complete"
         ELSE UNCHANGED <<frame_count, state_file, serial_out,
                          position_steps, status_msg>>
    /\ pc' = "idle" /\ handler' = "none"
    /\ UNCHANGED <<variant, roll_name, pixels_per_step, last_frame_advance,
                   attempt, aligned, detectVars>>
    /\ measured' = None
    /\ UNCHANGED <<alignVars, stepVars, manualVars, farVars>>

\* calibrate_frame_spacing, lines 466-472: the calibration values after the
\* right gap moved from centre c0 to c1 with the position from pos0 to pos1.
\* calibrate_frame_spacing, lines 463-464: the two deltas it measures.
Dbg_measured(c0, c1, pos0, pos1) ==
    [steps |-> pos1 - pos0, pixels |-> Abs(c1 - c0)]

Dbg_calibration_any_pixels(c0, c1, pos0, pos1, pps, lfa) ==
    LET steps_moved == pos1 - pos0
        pixels_moved == Abs(c1 - c0)
    IN  IF steps_moved > 0
        THEN [pps |-> Ratio(pixels_moved, steps_moved),
              lfa |-> Some(steps_moved)]
        ELSE [pps |-> pps, lfa |-> lfa]

Dbg_calibration(c0, c1, pos0, pos1, pps, lfa) ==
    LET steps_moved == pos1 - pos0
        pixels_moved == Abs(c1 - c0)
    IN  IF steps_moved > 0 /\ pixels_moved > 0
        THEN [pps |-> Ratio(pixels_moved, steps_moved),
              lfa |-> Some(steps_moved)]
        ELSE [pps |-> pps, lfa |-> lfa]

\* calibrate_frame_spacing, lines 462-487: from the second detection r2 on,
\* with the tracked position at pos1 and the last line sent ser1.
Dbg_KeyC_finish(r1, r2, img2, ser1, pos1, noting) ==
    /\ image' = img2 /\ out_dbg' = Some(r2)
    /\ serial_out' = ser1 /\ position_steps' = pos1
    /\ IF r2.right_gap = None
       THEN /\ measured' = None
            /\ UNCHANGED <<pixels_per_step, last_frame_advance, state_file>>
       ELSE \E io_ok \in BOOLEAN :
            LET cal == Dbg_calibration(Val(r1.right_gap).center,
                           Val(r2.right_gap).center, position_steps, pos1,
                           pixels_per_step, last_frame_advance)
            IN  /\ measured' = IF ~noting THEN None
                                ELSE Some(Dbg_measured(
                                         Val(r1.right_gap).center,
                                         Val(r2.right_gap).center,
                                         position_steps, pos1))
                /\ pixels_per_step' = cal.pps
                /\ last_frame_advance' = cal.lfa
                /\ state_file' = save_state(state_file, roll_name,
                       frame_count, pos1, cal.pps, cal.lfa, io_ok)

\* run(), key 'C': calibrate_frame_spacing as a whole, with the scenes its
\* previews can show; the history variable measured records the two deltas
\* iff noting.
Dbg_calibrate_frame_spacing(images, noting) ==
    /\ variant = "debug" /\ pc = "idle"
    /\ ReadKey
    /\ IF ~roll_name
       THEN /\ status_msg' = "Create roll first"
            /\ measured' = None
            /\ UNCHANGED <<position_steps, pixels_per_step,
                           last_frame_advance, state_file, serial_out,
                           image, out_dbg>>
       ELSE /\ UNCHANGED status_msg
            /\ \E preview1 \in BOOLEAN :
               IF ~preview1
               THEN /\ image' = MissingImage /\ measured' = None
                    /\ UNCHANGED <<position_steps, pixels_per_step,
                                   last_frame_advance, state_file,
                                   serial_out, out_dbg>>
               ELSE \E img1 \in images :
                 LET r1 == detect_frame_gaps_debug(img1.readable, img1.left,
                               img1.right, img1.w, img1.fl)
                 IN
                 IF r1.right_gap = None
                 THEN /\ image' = img1 /\ out_dbg' = Some(r1)
                      /\ measured' = None
                      /\ UNCHANGED <<position_steps, pixels_per_step,
                                     last_frame_advance, state_file,
                                     serial_out>>
                 ELSE \E write1 \in BOOLEAN, preview2 \in BOOLEAN :
                   LET sent1 == send_command(serial_out, position_steps,
                                    Cmd("H", 100), write1, "debug")
                   IN
                   /\ InRange(sent1.position)
                   /\ IF ~preview2
                      THEN /\ image' = MissingImage /\ out_dbg' = Some(r1)
                           /\ measured' = None
                           /\ serial_out' = sent1.serial
                           /\ position_steps' = sent1.position
                           /\ UNCHANGED <<pixels_per_step,
                                          last_frame_advance, state_file>>
                      ELSE \E img2 \in images :
                        LET r2 == detect_frame_gaps_debug(img2.readable,
                                      img2.left, img2.right, img2.w, img2.fl)
                        IN
                        IF r2.right_gap # None
                        THEN Dbg_KeyC_finish(r1, r2, img2, sent1.serial,
                                             sent1.position, noting)
                        ELSE \E write2 \in BOOLEAN, preview3 \in BOOLEAN :
                          LET sent2 == send_command(sent1.serial,
                                           sent1.position, Cmd("H", 50),
                                           write2, "debug")
                          IN
                          /\ InRange(sent2.position)
                          /\ IF ~preview3
                             THEN /\ image' = MissingImage
                                  /\ out_dbg' = Some(r2)
                                  /\ measured' = None
                                  /\ serial_out' = sent2.serial
                                  /\ position_steps' = sent2.position
                                  /\ UNCHANGED <<pixels_per_step,
                                         last_frame_advance, state_file>>
                             ELSE \E img3 \in images :
                               Dbg_KeyC_finish(r1,
                                   detect_frame_gaps_debug(img3.readable,
                                       img3.left, img3.right, img3.w,
                                       img3.fl),
                                   img3, sent2.serial, sent2.position,
                                   noting)
    /\ UNCHANGED <<variant, roll_name, frame_count, pc, handler, attempt,
                   aligned, out_opt, out_cmd>>
    /\ UNCHANGED <<alignVars, stepVars, manualVars, farVars>>

Dbg_KeyC == Dbg_calibrate_frame_spacing(SessionImages(variant), FALSE)

\* run(), key 'N': new_roll.  entry as for scanner_app_improved.py; a new
\* roll here also zeroes the tracked position.
Dbg_KeyN ==
    /\ variant = "debug" /\ pc = "idle"
    /\ ReadKey
    /\ \E entry \in {"cancel", "fresh", "continue", "startover", "quit"},
          io_ok \in BOOLEAN :
         /\ entry \in {"continue", "startover", "quit"} => state_file # None
         /\ IF entry = "cancel"
            THEN /\ status_msg' = "Cancelled"
                 /\ UNCHANGED <<roll_name, frame_count, position_steps,
                                pixels_per_step, last_frame_advance,
                                state_file>>
            ELSE IF entry \in {"continue", "quit"}
            THEN /\ roll_name' = TRUE
                 /\ frame_count' = Val(state_file).frame_count
                 /\ position_steps' = Val(state_file).position_steps
                 /\ pixels_per_step' = Val(state_file).pixels_per_step
                 /\ last_frame_advance' = Val(state_file).last_frame_advance
                 /\ status_msg' = IF entry = "continue" THEN "Resumed"
                                  ELSE status_msg
                 /\ UNCHANGED state_file
            ELSE /\ roll_name' = TRUE
                 /\ frame_count' = 0
                 /\ position_steps' = 0
                 /\ pixels_per_step' = DefaultPixelsPerStep
                 /\ last_frame_advance' = None
                 /\ status_msg' = "Position first frame"
                 /\ state_file' = save_state(
                        IF entry = "startover" THEN state_file ELSE None,
                        TRUE, 0, 0, DefaultPixelsPerStep, None, io_ok)
    /\ UNCHANGED <<variant, pc, handler, attempt, aligned, serial_out,
                   detectVars>>
    /\ measured' = None
    /\ UNCHANGED <<alignVars, stepVars, manualVars, farVars>>

-----------------------------------------------------------------------------
(* The session: run() after the Arduino was found and initialised.         *)

\* The variables of the conversions called on their own, while a session or
\* the detectors run.
CalIdle ==
    /\ measured = None /\ preview_failures = 0 /\ motor_failed = FALSE
    /\ cancel_at = None

StepIdle == distances = <<0, 0>> /\ out_steps = None
\* FilmScanner of the three manual front ends as constructed, for the
\* specifications that do not run them.
ManualIdle ==
    /\ position = 0 /\ frame_advance = None /\ mode = "manual"
    /\ strip_count = 0 /\ frames_in_strip = 0 /\ frame1_pos = None
    /\ cal_result = "none" /\ arduino = TRUE /\ motor_writes = 0
\* The threads that serve the capture requests of web_app_preview_stream.py
\* (app.run(..., threaded=True)).
Requests == {1, 2}

StreamIdle ==
    /\ camera_op_lock = FALSE
    /\ preview_pc = "off" /\ preview_stop = FALSE /\ last_frame = FALSE
    /\ capture_pc = [r \in Requests |-> "idle"]
    /\ capture_depth = [r \in Requests |-> 0]
    /\ last_capture_failed = FALSE
    /\ status_pc = "idle"
    /\ camera_connected = FALSE /\ viewfinder_enabled = FALSE

CountIdle == captures = 0

GapIdle == gap_mask = <<>> /\ out_gaps = None

\* Worker threads followed per behaviour.
MaxWorkers == 3
Workers == 1..MaxWorkers

PreviewIdle ==
    /\ worker_pc = [w \in Workers |-> "unborn"]
    /\ preview_thread = <<>>
    /\ ctl_pc = "idle"

ShotIdle == steps_since_shot = 0

VerifyIdle == has_cv2 = TRUE /\ out_verify = <<>>

\* Monitor threads followed per behaviour.
MaxMonitors == 2
MonitorIds == 1..MaxMonitors

MonitorIdle ==
    /\ wifi_connected = FALSE /\ camera_ip = FALSE
    /\ monitor_thread = <<>>
    /\ monitors = [m \in MonitorIds |-> [pc |-> "unborn", failures |-> 0]]
    /\ lost_calls = 0 /\ fail_run = 0

TailIdle ==
    /\ cal_succeeded = FALSE /\ PreviewIdle /\ ShotIdle /\ VerifyIdle
    /\ MonitorIdle

FarIdle == StreamIdle /\ CountIdle /\ GapIdle /\ TailIdle

OtherIdle == CalIdle /\ StepIdle /\ ManualIdle /\ FarIdle

Init ==
    /\ variant \in {"improved", "debug"}
    /\ roll_name = FALSE
    /\ frame_count = 0
    /\ position_steps = 0
    /\ pixels_per_step = DefaultPixelsPerStep
    /\ last_frame_advance = None
    /\ state_file = None
    /\ status_msg = "Ready"
    /\ pc = "idle" /\ handler = "none" /\ attempt = 0 /\ aligned = FALSE
    /\ serial_out = Some(Cmd("E", 0))
    /\ keys = 0
    /\ image = MissingImage
    /\ out_opt = None /\ out_dbg = None /\ out_cmd = None
    /\ OtherIdle

Next ==
    \/ Imp_KeyN \/ Imp_KeyC \/ Imp_KeyA \/ Imp_KeySpace
    \/ Imp_AlignStep \/ Imp_Capture
    \/ Dbg_KeyN \/ Dbg_KeyC \/ Dbg_KeyA \/ Dbg_KeySpace
    \/ Dbg_AlignStep \/ Dbg_Capture

Spec == Init /\ [][Next]_vars

-----------------------------------------------------------------------------
(* The detectors and get_motor_command on their own: every image of a      *)
(* bounded family is classified by both detectors, and the result of       *)
(* detect_frame_gaps is turned into a motor command.                       *)

\* Image widths: one where the percent thresholds fall on pixels, one where
\* they fall between pixels.
ClassifyWidths == {4000, 1001}

\* Gap centres in thousandths of the width, at and around 15%, 25%, 30%,
\* 70%, 75% and 85%, and such that their midpoints fall at and around 40%
\* and 60%.
LeftPermille == {30, 80, 149, 150, 151, 249, 250, 251, 299, 300, 301, 400, 499}
RightPermille == {500, 600, 699, 700, 701, 749, 750, 751, 849, 850, 851, 900, 970}

\* Gap widths at and around the small-gap limits 40 and 100.
LeftWidths == {20, 30, 40, 100}
RightWidths == {25, 39, 99}

\* A gap the column scan can record in an image w wide: more than 10 and
\* fewer than 250 columns, starting at column 0 or later and ending before
\* the last column, with centre (gap_start + gap_end) // 2.
ValidGap(g, w) ==
    /\ MIN_GAP_WIDTH < g.width /\ g.width < MAX_GAP_WIDTH
    /\ g.center - g.width \div 2 >= 0
    /\ g.center - g.width \div 2 + g.width <= w - 1

\* left_gaps: percent < 50; right_gaps: percent >= 50
LeftGaps(w) ==
    { g \in { Gap((p * w) \div 1000, wd) : p \in LeftPermille, wd \in LeftWidths } :
        ValidGap(g, w) /\ 100 * g.center < 50 * w }
RightGaps(w) ==
    { g \in { Gap((p * w) \div 1000, wd) : p \in RightPermille, wd \in RightWidths } :
        ValidGap(g, w) /\ 100 * g.center >= 50 * w }

Options(S) == {None} \cup { Some(x) : x \in S }

\* The selected gaps are two different runs of columns.
Apart(left, right) ==
    left # None /\ right # None =>
        Val(left).center - Val(left).width \div 2 + Val(left).width
            < Val(right).center - Val(right).width \div 2

ClassifyImages ==
    { Image(FALSE, 0, None, None, 0) } \cup
    UNION { { Image(TRUE, w, l, r, fl) :
                l \in Options(LeftGaps(w)), r \in Options(RightGaps(w)),
                fl \in {0, 1} } : w \in ClassifyWidths }

\* pixels_per_step: the default 2.0, 0.5, and 2.8 as a calibration leaves it.
ClassifyPixelsPerStep == { Ratio(2, 1), Ratio(1, 2), Ratio(14, 5) }

InitClassify ==
    /\ variant = "improved"
    /\ roll_name = FALSE
    /\ frame_count = 0
    /\ position_steps = 0
    /\ pixels_per_step \in ClassifyPixelsPerStep
    /\ last_frame_advance = None
    /\ state_file = None
    /\ status_msg = "Ready"
    /\ pc = "idle" /\ handler = "none" /\ attempt = 0 /\ aligned = FALSE
    /\ serial_out = None
    /\ keys = 0
    /\ image \in { i \in ClassifyImages : Apart(i.left, i.right) }
    /\ out_opt = None /\ out_dbg = None /\ out_cmd = None
    /\ OtherIdle

\* result = detect_frame_gaps(img_path)
Call_detect_frame_gaps ==
    /\ out_opt = None
    /\ out_opt' = Some(detect_frame_gaps(image.readable, image.left,
                           image.right, image.w, image.fl))
    /\ UNCHANGED <<sessionVars, runVars, image, out_dbg, out_cmd>>
    /\ UNCHANGED otherVars

\* result = detect_frame_gaps_debug(img_path)
Call_detect_frame_gaps_debug ==
    /\ out_dbg = None
    /\ out_dbg' = Some(detect_frame_gaps_debug(image.readable, image.left,
                           image.right, image.w, image.fl))
    /\ UNCHANGED <<sessionVars, runVars, image, out_opt, out_cmd>>
    /\ UNCHANGED otherVars

\* motor_cmd = get_motor_command(result, pixels_per_step)
Call_get_motor_command ==
    /\ out_opt # None /\ out_cmd = None
    /\ \E fl \in FloatLoss(pixels_per_step) :
         out_cmd' = Some(get_motor_command(Val(out_opt), pixels_per_step, fl))
    /\ UNCHANGED <<sessionVars, runVars, image, out_opt, out_dbg>>
    /\ UNCHANGED otherVars

NextClassify ==
    \/ Call_detect_frame_gaps
    \/ Call_detect_frame_gaps_debug
    \/ Call_get_motor_command

SpecClassify == InitClassify /\ [][NextClassify]_vars

-----------------------------------------------------------------------------
(* The pixel-to-step conversions on their own: two pixel distances         *)
(* d1 <= d2 are converted with the same pixels_per_step by                 *)
(* pixels_to_motor_steps, by get_motor_command and by the conversion of    *)
(* Scanner_debug.py's smart_align_step.                                    *)

\* Pixel distances 0 .. MaxPixels.
MaxPixels == 64

\* pixels_per_step: the default 2.0; 2.8 (inexact as a float), 32.0 and
\* 0.125 as calibration leaves them (280, 3200 and 12.5 pixels per 100
\* steps).
StepPixelsPerStep == { Ratio(2, 1), Ratio(14, 5), Ratio(32, 1), Ratio(1, 8) }

\* The actions of a decision that carries a distance.
MovingActions == {"ADVANCE_COARSE", "ADVANCE_MEDIUM", "ADVANCE_FINE",
                  "BACKUP_MEDIUM", "BACKUP_FINE"}

\* The rounding losses of converting d1 and d2: one distance converted
\* twice gives one value.
StepLosses(pps) ==
    { f \in FloatLoss(pps) \X FloatLoss(pps) :
        distances[1] = distances[2] => f[1] = f[2] }

InitSteps ==
    /\ variant \in {"improved", "debug"}
    /\ roll_name = FALSE
    /\ frame_count = 0
    /\ position_steps = 0
    /\ pixels_per_step \in StepPixelsPerStep
    /\ last_frame_advance \in {None, Some(DBG_UNCALIBRATED_MAX)}
    /\ state_file = None
    /\ status_msg = "Ready"
    /\ pc = "idle" /\ handler = "none" /\ attempt = 0 /\ aligned = FALSE
    /\ serial_out = None
    /\ keys = 0
    /\ image = MissingImage
    /\ out_opt = None /\ out_dbg = None /\ out_cmd = None
    /\ distances \in { d \in (0 .. MaxPixels) \X (0 .. MaxPixels) : d[1] <= d[2] }
    /\ out_steps = None
    /\ CalIdle /\ ManualIdle /\ FarIdle

\* The outcome of converting both distances: by which conversion, and the
\* two step counts (None where no step count is formed).
StepsOut(by, s1, s2) == Some([by |-> by, steps |-> <<s1, s2>>])

\* steps = pixels_to_motor_steps(d, pixels_per_step)
Call_pixels_to_motor_steps ==
    /\ out_steps = None
    /\ \E f \in StepLosses(pixels_per_step) :
         out_steps' = StepsOut("pixels_to_motor_steps",
             Some(pixels_to_motor_steps(distances[1], pixels_per_step, f[1])),
             Some(pixels_to_motor_steps(distances[2], pixels_per_step, f[2])))
    /\ UNCHANGED <<sessionVars, runVars, detectVars, calVars, alignVars,
                   distances, manualVars, farVars>>

\* The step count of get_motor_command's command for a decision with a
\* distance: None for a distance of 0, which takes the default step count.
CommandSteps(action, d, pps, fl) ==
    IF d = 0 THEN None
    ELSE Some(get_motor_command(
                  Result("MOVE", action, Some(d), None, None, None),
                  pps, fl).steps)

\* motor_cmd = get_motor_command(result, pixels_per_step), for a moving
\* decision over d
Call_get_motor_command_steps ==
    /\ out_steps = None /\ variant = "improved"
    /\ \E action \in MovingActions, f \in StepLosses(pixels_per_step) :
         out_steps' = StepsOut("get_motor_command",
             CommandSteps(action, distances[1], pixels_per_step, f[1]),
             CommandSteps(action, distances[2], pixels_per_step, f[2]))
    /\ UNCHANGED <<sessionVars, runVars, detectVars, calVars, alignVars,
                   distances, manualVars, farVars>>

\* smart_align_step of Scanner_debug.py, lines 383-399: no command at all
\* for a distance of 0.
Dbg_CommandSteps(action, d, pps, lfa, fl) ==
    IF d = 0 THEN None
    ELSE Some(Dbg_command(action, Dbg_steps(d, pps, lfa, fl)).steps)

Call_Dbg_steps ==
    /\ out_steps = None /\ variant = "debug"
    /\ \E action \in MovingActions, f \in StepLosses(pixels_per_step) :
         out_steps' = StepsOut("smart_align_step",
             Dbg_CommandSteps(action, distances[1], pixels_per_step,
                              last_frame_advance, f[1]),
             Dbg_CommandSteps(action, distances[2], pixels_per_step,
                              last_frame_advance, f[2]))
    /\ UNCHANGED <<sessionVars, runVars, detectVars, calVars, alignVars,
                   distances, manualVars, farVars>>

NextSteps ==
    \/ Call_pixels_to_motor_steps
    \/ Call_get_motor_command_steps
    \/ Call_Dbg_steps

SpecSteps == InitSteps /\ [][NextSteps]_vars

-----------------------------------------------------------------------------
(* scanner_app_v2.py (first FilmScanner class), web_app.py and             *)
(* scanner_hybrid.py: the front ends that calibrate the frame advance from *)
(* two positions of the motor.                                             *)

\* Keys read, respectively requests served, per behaviour.
MaxManualKeys == 5
\* Frames captured per behaviour.
MaxManualFrames == 3

WEB_COARSE_STEP == 192
default_advance == 1200
HYBRID_FRAME_ADVANCE == 120
HYBRID_ADJUST == 5
HYBRID_MIN_ADVANCE == 10
HYBRID_CALIBRATE_STEP == 10

\* The positions a manual session is followed through.
ManualRange(pos) == -MaxPosition <= pos /\ pos <= 2 * MaxPosition

\* getch() of a main loop or of a positioning loop delivered a key; a
\* request reached a route of web_app.py.
ReadManualKey == keys < MaxManualKeys /\ keys' = keys + 1

\* send: the position after one cmd.  'H-<n>' is Cmd("H", -n).
Man_PositionAfter(pos, cmd, v) ==
    IF cmd.op = "f" THEN pos + fine_step
    ELSE IF cmd.op = "b" THEN pos - fine_step
    ELSE IF cmd.op = "F"
    THEN pos + (IF v = "web" THEN WEB_COARSE_STEP ELSE coarse_step)
    ELSE IF cmd.op = "B"
    THEN pos - (IF v = "web" THEN WEB_COARSE_STEP ELSE coarse_step)
    ELSE IF cmd.op = "H" THEN pos + cmd.steps
    ELSE IF cmd.op = "h" THEN pos - cmd.steps
    ELSE IF cmd.op = "Z" THEN 0
    ELSE pos

\* send(cmd) of scanner_app_v2.py and scanner_hybrid.py: the command is
\* written once and the position tracked, or write raises and nothing
\* changes.
send(pos, cmd, write_ok, v) ==
    IF write_ok
    THEN [ok |-> TRUE, position |-> Man_PositionAfter(pos, cmd, v),
          writes |-> 1, arduino |-> TRUE]
    ELSE [ok |-> FALSE, position |-> pos, writes |-> 0, arduino |-> TRUE]

\* What the serial line does during one send of web_app.py: fault1 and
\* fault2 say where the first and the second pass through the try block
\* meet a SerialException ("none"; "before_write": reset_input_buffer or
\* the write of the command; "after_write": the write of '?' or the read
\* of the answer), reconnect whether find_arduino succeeds, report whether
\* the answer holds a Position line.
SerialEnv ==
    [fault1 : {"none", "before_write", "after_write"},
     reconnect : BOOLEAN,
     fault2 : {"none", "before_write", "after_write"},
     report : BOOLEAN]

\* send, lines 184: the commands whose position is queried.
Web_queried(cmd, update_position) ==
    update_position /\ cmd.op \in {"f", "F", "b", "B", "H", "Z"}

\* The position the Arduino has after n writes of cmd.
RECURSIVE Web_reported(_, _, _)
Web_reported(pos, cmd, n) ==
    IF n = 0 THEN pos
    ELSE Web_reported(Man_PositionAfter(pos, cmd, "web"), cmd, n - 1)

\* send, lines 175-200: one pass through the try block, after the command
\* was written `before` times.
Web_attempt(pos, cmd, update_position, fault, report, before) ==
    LET writes == before + (IF fault = "before_write" THEN 0 ELSE 1)
        raised == \/ fault = "before_write"
                  \/ fault = "after_write" /\ Web_queried(cmd, update_position)
    IN  [raised |-> raised, writes |-> writes,
         position |-> IF ~raised /\ Web_queried(cmd, update_position)
                           /\ report
                      THEN Web_reported(pos, cmd, writes) ELSE pos]

\* send(cmd, retry=True, update_position) of web_app.py, lines 167-228.
Web_send(pos, cmd, update_position, link, env) ==
    IF ~link
    THEN [ok |-> FALSE, position |-> pos, writes |-> 0, arduino |-> FALSE]
    ELSE LET a1 == Web_attempt(pos, cmd, update_position, env.fault1,
                               env.report, 0)
             a2 == Web_attempt(pos, cmd, update_position, env.fault2,
                               env.report, a1.writes)
         IN  IF ~a1.raised
             THEN [ok |-> TRUE, position |-> a1.position,
                   writes |-> a1.writes, arduino |-> TRUE]
             ELSE IF ~env.reconnect
             THEN [ok |-> FALSE, position |-> pos, writes |-> a1.writes,
                   arduino |-> FALSE]
             ELSE IF ~a2.raised
             THEN [ok |-> TRUE, position |-> a2.position,
                   writes |-> a2.writes, arduino |-> TRUE]
             ELSE [ok |-> FALSE, position |-> pos, writes |-> a2.writes,
                   arduino |-> FALSE]

\* The dict save_state writes (scanner_hybrid.py writes frame_count,
\* position and frame_advance only; its other fields never change).
ManualState(fc, sc, fis, pos, fa, md) ==
    [frame_count |-> fc, strip_count |-> sc, frames_in_strip |-> fis,
     position |-> pos, frame_advance |-> fa, mode |-> md]

\* save_state: the file after it; nothing is written before a roll has set
\* state_file.  The state file of these front ends is taken as writable.
Man_save_state(file, has_roll, st) ==
    IF has_roll THEN Some(st) ELSE file

ManualVariants == {"v2", "web", "hybrid"}

\* The serial line as one send meets it: every case for web_app.py; for
\* the other two only whether the write raises.
Envs(v) ==
    IF v = "web" THEN SerialEnv
    ELSE { e \in SerialEnv : /\ e.fault1 \in {"none", "before_write"}
                             /\ ~e.reconnect /\ e.fault2 = "none"
                             /\ ~e.report }

\* The FilmScanner object as a handler finds it, as a record; ok is the
\* return value of the last call modelled on it, cal_result and
\* motor_writes say what this handler did.
Man_Now ==
    [roll_name |-> roll_name, frame_count |-> frame_count,
     state_file |-> state_file, status_msg |-> status_msg, pc |-> pc,
     serial_out |-> serial_out, position |-> position,
     frame_advance |-> frame_advance, mode |-> mode,
     strip_count |-> strip_count, frames_in_strip |-> frames_in_strip,
     frame1_pos |-> frame1_pos, cal_result |-> "none",
     arduino |-> arduino, motor_writes |-> 0, ok |-> TRUE]

\* The handler ends with the object as in s.
Man_Assign(s) ==
    /\ ManualRange(s.position) /\ s.frame_count <= MaxManualFrames
    /\ roll_name' = s.roll_name /\ frame_count' = s.frame_count
    /\ state_file' = s.state_file /\ status_msg' = s.status_msg
    /\ pc' = s.pc /\ serial_out' = s.serial_out /\ position' = s.position
    /\ frame_advance' = s.frame_advance /\ mode' = s.mode
    /\ strip_count' = s.strip_count
    /\ frames_in_strip' = s.frames_in_strip
    /\ frame1_pos' = s.frame1_pos /\ cal_result' = s.cal_result
    /\ arduino' = s.arduino /\ motor_writes' = s.motor_writes
    /\ cal_succeeded' = (cal_succeeded \/ s.cal_result = "calibrated")
    /\ UNCHANGED <<variant, position_steps, pixels_per_step,
                   last_frame_advance, handler, attempt, aligned,
                   detectVars, calVars, alignVars, stepVars, streamVars,
                   countVars, gapVars, previewVars, monitorVars>>

Man_Set(s) == Man_Assign(s) /\ UNCHANGED <<shotVars, verifyVars>>

\* self.save_state()
Man_saved(s) ==
    [s EXCEPT !.state_file =
        Man_save_state(s.state_file, s.roll_name,
            ManualState(s.frame_count, s.strip_count, s.frames_in_strip,
                        s.position, s.frame_advance, s.mode))]

\* self.send(cmd), with the writes of one handler added up.
Man_sent(s, cmd, update_position, env) ==
    LET r == IF variant = "web"
             THEN Web_send(s.position, cmd, update_position, s.arduino, env)
             ELSE send(s.position, cmd, env.fault1 = "none", variant)
    IN  [s EXCEPT !.position = r.position, !.arduino = r.arduino,
                  !.motor_writes = r.writes,
                  !.serial_out = IF r.writes > 0 THEN Some(cmd) ELSE @,
                  !.ok = r.ok]

Man_captured_counts_failures(s, cam_ok) ==
    Man_saved([s EXCEPT !.frame_count = @ + 1,
                        !.frames_in_strip =
                            IF variant = "hybrid" THEN @ ELSE @ + 1,
                        !.ok = cam_ok])

\* self.capture_image(): a capture counts the frame and saves the state.
Man_captured(s, cam_ok) ==
    IF cam_ok
    THEN Man_saved([s EXCEPT !.frame_count = @ + 1,
                             !.frames_in_strip =
                                 IF variant = "hybrid" THEN @ ELSE @ + 1,
                             !.ok = TRUE])
    ELSE [s EXCEPT !.ok = FALSE]

Man_loaded_without_strips(s) ==
    LET f == Val(s.state_file)
    IN  IF variant = "hybrid"
        THEN [s EXCEPT !.frame_count = f.frame_count,
                       !.position = f.position,
                       !.frame_advance = f.frame_advance]
        ELSE [s EXCEPT !.frame_count = f.frame_count,
                       !.strip_count = f.strip_count,
                       !.position = f.position,
                       !.frame_advance = f.frame_advance,
                       !.mode = f.mode]

\* load_state: the object after the file was read.
Man_loaded(s) ==
    LET f == Val(s.state_file)
    IN  IF variant = "hybrid"
        THEN [s EXCEPT !.frame_count = f.frame_count,
                       !.position = f.position,
                       !.frame_advance = f.frame_advance]
        ELSE [s EXCEPT !.frame_count = f.frame_count,
                       !.strip_count = f.strip_count,
                       !.frames_in_strip = f.frames_in_strip,
                       !.position = f.position,
                       !.frame_advance = f.frame_advance,
                       !.mode = f.mode]

\* new_roll (key N; route /api/new_roll).  entry: "cancel" no name given;
\* "fresh" the roll's folder holds no state file; "resume", "startover",
\* "quit" the answer when it holds one (web_app.py: the request's resume
\* flag).
Man_KeyN ==
    /\ variant \in ManualVariants /\ pc = "idle"
    /\ ReadManualKey
    /\ \E entry \in {"cancel", "fresh", "resume", "startover", "quit"} :
         /\ entry \in {"resume", "startover", "quit"} => state_file # None
         /\ variant = "web" => entry # "quit"
         /\ LET s == Man_Now
                named == [s EXCEPT !.roll_name = TRUE]
                found == IF entry = "fresh"
                         THEN [named EXCEPT !.state_file = None]
                         ELSE IF variant = "web" THEN named
                         ELSE Man_loaded(named)
                reset == IF variant = "v2"
                         THEN [found EXCEPT !.frame_count = 0,
                                            !.position = 0,
                                            !.frame_advance = None]
                         ELSE IF variant = "hybrid"
                         THEN [found EXCEPT !.frame_count = 0,
                                            !.position = 0]
                         ELSE [found EXCEPT !.frame_count = 0,
                                            !.strip_count = 0,
                                            !.frames_in_strip = 0,
                                            !.frame_advance = None]
            IN  Man_Set(
                  IF entry = "cancel"
                  THEN [s EXCEPT !.status_msg = "Cancelled"]
                  ELSE IF entry = "resume"
                  THEN IF variant = "web"
                       THEN Man_saved([Man_loaded(named) EXCEPT
                                         !.status_msg = "Resumed"])
                       ELSE [Man_loaded(named) EXCEPT
                               !.status_msg = "Resumed"]
                  ELSE IF entry = "quit"
                  THEN Man_loaded(named)
                  ELSE Man_saved([reset EXCEPT
                                    !.status_msg = "Position first frame"]))

\* Main loop: the arrow keys (with G for the step size) and Z; routes
\* /api/move and /api/zero_position.
Man_Move ==
    /\ variant \in ManualVariants /\ pc = "idle"
    /\ ReadManualKey
    /\ \E op \in {"f", "b", "F", "B", "Z"}, env \in Envs(variant) :
         /\ variant = "hybrid" => op # "Z"
         /\ LET s == Man_sent(Man_Now, Cmd(op, 0), op = "Z", env)
            IN  Man_Set(
                  IF ~s.ok
                  THEN [s EXCEPT !.status_msg =
                          IF variant = "web" THEN "Motor failed" ELSE @]
                  ELSE [s EXCEPT
                          !.position =
                             IF variant = "web"
                             THEN Man_PositionAfter(position, Cmd(op, 0),
                                                    "web")
                             ELSE @,
                          !.status_msg = "Moved"])

\* advance_frame / backup_frame (Shift-arrows; routes /api/advance_frame
\* and /api/backup_frame).
Man_FullFrame ==
    /\ variant \in {"v2", "web"} /\ pc = "idle"
    /\ ReadManualKey
    /\ \E forward \in BOOLEAN, env \in Envs(variant) :
         LET n == IF frame_advance = None THEN default_advance
                  ELSE Val(frame_advance)
             cmd == IF variant = "v2"
                    THEN Cmd(IF forward THEN "H" ELSE "h", n)
                    ELSE Cmd("H", IF forward THEN n ELSE -n)
             s == Man_sent(Man_Now, cmd, TRUE, env)
         IN  IF variant = "web" /\ (frame_advance = None \/ n = 0)
             THEN Man_Set(Man_Now)
             ELSE Man_Set([s EXCEPT !.status_msg =
                             IF s.ok THEN "Advanced"
                             ELSE IF variant = "web" THEN "Motor failed"
                             ELSE "Advancing"])

\* Key M; route /api/toggle_mode.
Man_Toggle ==
    /\ variant \in {"v2", "web"} /\ pc = "idle"
    /\ ReadManualKey
    /\ Man_Set(Man_saved([Man_Now EXCEPT
                 !.mode = IF @ = "manual" THEN "calibrated" ELSE "manual",
                 !.status_msg = "Mode"]))

\* scanner_hybrid.py, keys + and -: frame_advance += 5, respectively
\* max(10, frame_advance - 5).
Hyb_Adjust ==
    /\ variant = "hybrid" /\ pc = "idle"
    /\ ReadManualKey
    /\ \E more \in BOOLEAN :
         LET fa == Val(frame_advance)
             new == IF more THEN fa + HYBRID_ADJUST
                    ELSE IF fa - HYBRID_ADJUST > HYBRID_MIN_ADVANCE
                    THEN fa - HYBRID_ADJUST ELSE HYBRID_MIN_ADVANCE
         IN  Man_Set(Man_saved([Man_Now EXCEPT
                       !.frame_advance = Some(new),
                       !.status_msg = "Frame advance"]))

\* scanner_app_v2.py, key C: calibrate() draws its screen and waits in the
\* positioning loop for frame 1.
V2_KeyC ==
    /\ variant = "v2" /\ pc = "idle"
    /\ ReadManualKey
    /\ Man_Set(IF ~roll_name
               THEN [Man_Now EXCEPT !.status_msg = "Create roll first"]
               ELSE [Man_Now EXCEPT !.pc = "cal_frame1"])

\* calibrate(), either positioning loop: an arrow key moves the film, Q
\* leaves the calibration.
V2_CalKey ==
    /\ variant = "v2" /\ pc \in {"cal_frame1", "cal_frame2"}
    /\ ReadManualKey
    /\ \E op \in {"f", "b", "F", "B", "q"}, env \in Envs(variant) :
         Man_Set(IF op = "q"
                 THEN [Man_Now EXCEPT !.pc = "idle",
                                      !.cal_result = "cancelled",
                                      !.status_msg = "Calibration cancelled"]
                 ELSE Man_sent(Man_Now, Cmd(op, 0), TRUE, env))

\* calibrate(), lines 412-453: SPACE in the first loop records frame1_pos
\* and captures frame 1.
V2_CalFrame1 ==
    /\ variant = "v2" /\ pc = "cal_frame1"
    /\ ReadManualKey
    /\ \E cam_ok \in BOOLEAN :
         LET s == Man_captured([Man_Now EXCEPT
                                  !.frame1_pos = Some(position)],
                               cam_ok)
         IN  Man_Set(IF s.ok
                     THEN [s EXCEPT !.pc = "cal_frame2"]
                     ELSE [s EXCEPT !.pc = "idle",
                                    !.cal_result = "capture_failed",
                                    !.status_msg = "Calibration cancelled"])

\* The end of a two-position calibration, scanner_app_v2.py lines 474-513
\* and web_app.py lines 829-846: frame_advance is assigned, then tested,
\* then frame 2 is captured and the calibration saved.
Man_calibrate_frame2(s, cam_ok) ==
    LET distance == s.position - Val(s.frame1_pos)
        advanced == [s EXCEPT !.frame_advance = Some(distance)]
        shot == Man_captured(advanced, cam_ok)
    IN  IF distance <= 0
        THEN [advanced EXCEPT !.cal_result = "not_ahead", !.ok = FALSE]
        ELSE IF ~shot.ok
        THEN [shot EXCEPT !.cal_result = "capture_failed"]
        ELSE [Man_saved([shot EXCEPT
                           !.strip_count = 1,
                           !.frames_in_strip =
                               IF variant = "v2" THEN 2 ELSE @,
                           !.mode = "calibrated"])
              EXCEPT !.cal_result = "calibrated",
                     !.status_msg = "Calibrated"]

\* calibrate(), lines 473-513: SPACE in the second loop.
V2_CalFrame2 ==
    /\ variant = "v2" /\ pc = "cal_frame2"
    /\ ReadManualKey
    /\ \E cam_ok \in BOOLEAN :
         LET s == Man_calibrate_frame2(Man_Now, cam_ok)
         IN  Man_Set([s EXCEPT !.pc = "idle",
                               !.status_msg =
                                   IF s.ok THEN @
                                   ELSE "Calibration cancelled"])

\* web_app.py, route /api/calibrate.  The client keeps frame1_pos between
\* the requests capture_frame1 and capture_frame2 and sends it back.
Web_calibrate ==
    /\ variant = "web" /\ pc = "idle"
    /\ ReadManualKey
    /\ \E action \in {"start", "capture_frame1", "capture_frame2"},
          cam_ok \in BOOLEAN :
         /\ action = "capture_frame2" => frame1_pos # None
         /\ Man_Set(
              IF ~roll_name \/ strip_count > 0 \/ action = "start"
              THEN Man_Now
              ELSE IF action = "capture_frame1"
              THEN LET s == Man_captured(Man_Now, cam_ok)
                   IN  IF s.ok
                       THEN [s EXCEPT !.frame1_pos = Some(position)]
                       ELSE s
              ELSE Man_calibrate_frame2(Man_Now, cam_ok))

\* scanner_hybrid.py, key C: calibrate() up to its adjustment loop: any
\* key, start_pos, send H<frame_advance>.
Hyb_KeyC ==
    /\ variant = "hybrid" /\ pc = "idle"
    /\ ReadManualKey
    /\ \E env \in Envs(variant) :
         Man_Set(IF ~roll_name
                 THEN [Man_Now EXCEPT !.status_msg = "Create roll first"]
                 ELSE [Man_sent([Man_Now EXCEPT
                                   !.frame1_pos = Some(position)],
                                Cmd("H", Val(frame_advance)), TRUE, env)
                       EXCEPT !.pc = "cal_adjust"])

\* calibrate(), lines 292-339: the adjustment loop.  "y" stores the
\* distance moved; "plus" sends H10; "minus" lowers frame_advance by 10
\* and leaves; "keep" declines that; "q" leaves.
Hyb_CalKey ==
    /\ variant = "hybrid" /\ pc = "cal_adjust"
    /\ ReadManualKey
    /\ \E key \in {"y", "plus", "minus", "keep", "q"},
          env \in Envs(variant) :
         Man_Set(
           IF key = "y"
           THEN Man_saved([Man_Now EXCEPT
                   !.frame_advance = Some(position - Val(frame1_pos)),
                   !.cal_result = "calibrated", !.pc = "idle"])
           ELSE IF key = "plus"
           THEN Man_sent(Man_Now, Cmd("H", HYBRID_CALIBRATE_STEP), TRUE, env)
           ELSE IF key = "minus"
           THEN [Man_Now EXCEPT
                   !.frame_advance =
                       Some(Val(frame_advance) - HYBRID_CALIBRATE_STEP),
                   !.cal_result = "cancelled", !.pc = "idle"]
           ELSE IF key = "keep"
           THEN Man_Now
           ELSE [Man_Now EXCEPT !.cal_result = "cancelled", !.pc = "idle"])

\* scanner_app_v2.py, key SPACE: capture_frame, advancing after the
\* capture in calibrated mode (auto_advance stays at its initial True).
V2_KeySpace ==
    /\ variant = "v2" /\ pc = "idle"
    /\ ReadManualKey
    /\ \E cam_ok \in BOOLEAN, env \in Envs(variant) :
         LET shot == Man_captured(Man_Now, cam_ok)
             n == IF frame_advance = None THEN default_advance
                  ELSE Val(frame_advance)
             moved == Man_sent(shot, Cmd("H", n), TRUE, env)
         IN  Man_Set(
               IF ~roll_name
               THEN [Man_Now EXCEPT !.status_msg = "Create roll first"]
               ELSE IF ~shot.ok
               THEN [shot EXCEPT !.status_msg = "Capture failed"]
               ELSE IF mode = "calibrated"
               THEN [moved EXCEPT !.status_msg =
                       IF moved.ok THEN "Ready for next"
                       ELSE "Advance failed"]
               ELSE [shot EXCEPT !.status_msg = "Frame complete"])

\* web_app.py, route /api/capture: in calibrated mode, from the second
\* frame of a strip on, the film is advanced before the capture.
Web_captured(cam_ok, env) ==
    LET advancing == /\ mode = "calibrated" /\ frames_in_strip > 0
                     /\ frame_advance # None /\ Val(frame_advance) # 0
        moved == IF advancing
                 THEN Man_sent(Man_Now,
                          Cmd("H", Val(frame_advance)), TRUE, env)
                 ELSE Man_Now
        shot == Man_captured(moved, cam_ok)
    IN  IF ~roll_name
        THEN Man_Now
        ELSE IF ~moved.ok
        THEN moved
        ELSE [shot EXCEPT !.status_msg =
                IF shot.ok THEN "Frame complete"
                ELSE "Capture failed"]

Web_capture ==
    /\ variant = "web" /\ pc = "idle"
    /\ ReadManualKey
    /\ \E cam_ok \in BOOLEAN, env \in Envs(variant) :
         Man_Set(Web_captured(cam_ok, env))

\* scanner_hybrid.py, key SPACE: capture_frame.  After the first frame the
\* film is advanced by frame_advance; gaps of the five verification
\* previews that showed no content each added H10; found says whether one
\* of them showed content.
Hyb_KeySpace ==
    /\ variant = "hybrid" /\ pc = "idle"
    /\ ReadManualKey
    /\ \E gaps \in 0 .. 5, found \in BOOLEAN, cam_ok \in BOOLEAN,
          env \in Envs(variant) :
         /\ found => gaps <= 4
         /\ LET moved == IF frame_count > 0
                         THEN Man_sent(Man_Now,
                                  Cmd("H", Val(frame_advance)), TRUE, env)
                         ELSE Man_Now
                nudge == Cmd("H", HYBRID_CALIBRATE_STEP)
                nudged == IF gaps = 0 \/ env.fault1 # "none" THEN moved
                          ELSE [moved EXCEPT
                                  !.position = @ + gaps * nudge.steps,
                                  !.serial_out = Some(nudge),
                                  !.motor_writes = 1]
                shot == Man_captured(nudged, cam_ok)
            IN  Man_Set(
                  IF ~roll_name
                  THEN [Man_Now EXCEPT !.status_msg = "Create roll first"]
                  ELSE IF ~found
                  THEN [nudged EXCEPT !.status_msg = "No frame found"]
                  ELSE [shot EXCEPT !.status_msg =
                          IF shot.ok THEN "Frame complete"
                          ELSE "Capture failed"])

InitManual ==
    /\ variant \in ManualVariants
    /\ roll_name = FALSE
    /\ frame_count = 0
    /\ position_steps = 0
    /\ pixels_per_step = DefaultPixelsPerStep
    /\ last_frame_advance = None
    /\ state_file = None
    /\ status_msg = "Ready"
    /\ pc = "idle" /\ handler = "none" /\ attempt = 0 /\ aligned = FALSE
    /\ serial_out = Some(Cmd("E", 0))
    /\ keys = 0
    /\ image = MissingImage
    /\ out_opt = None /\ out_dbg = None /\ out_cmd = None
    /\ CalIdle /\ StepIdle /\ FarIdle
    /\ position = 0
    /\ frame_advance = IF variant = "hybrid"
                       THEN Some(HYBRID_FRAME_ADVANCE) ELSE None
    /\ mode = "manual"
    /\ strip_count = 0 /\ frames_in_strip = 0 /\ frame1_pos = None
    /\ cal_result = "none" /\ arduino = TRUE /\ motor_writes = 0

NextManual ==
    \/ Man_KeyN \/ Man_Move \/ Man_FullFrame \/ Man_Toggle \/ Hyb_Adjust
    \/ V2_KeyC \/ V2_CalKey \/ V2_CalFrame1 \/ V2_CalFrame2
    \/ Web_calibrate
    \/ Hyb_KeyC \/ Hyb_CalKey
    \/ V2_KeySpace \/ Web_capture \/ Hyb_KeySpace

SpecManual == InitManual /\ [][NextManual]_vars

\* The session with the loops' iterations taken one after the other: an
\* iteration ends once its preview, detection and motor command are done
\* (every subprocess call has a timeout).
FairSpec == Spec /\ WF_vars(Imp_AlignStep) /\ WF_vars(Dbg_AlignStep)

-----------------------------------------------------------------------------
(* Properties.                                                             *)

\* The iteration ceiling of the running script.
AttemptCeiling ==
    IF variant = "improved" THEN ALIGN_ATTEMPTS_IMPROVED
    ELSE ALIGN_ATTEMPTS_DEBUG

\* What the scripts show when the loop ends without alignment.
TimeoutMessages == {"Alignment timeout", "Could not align", "Alignment failed"}

\* The last detection of the running script reported an aligned frame.
SawAligned ==
    IF variant = "improved"
    THEN out_opt # None /\ Val(out_opt).action \in {"CAPTURE", "CAPTURE_OK"}
    ELSE out_dbg # None /\ Val(out_dbg).action = "CAPTURE"

Forward == {"ADVANCE_COARSE", "ADVANCE_MEDIUM", "ADVANCE_FINE"}
Backward == {"BACKUP_MEDIUM", "BACKUP_FINE"}

\* C1: the alignment loop of the 'A' and SPACE handlers never starts an
\* iteration beyond its ceiling (20 in scanner_app_improved.py, 15 in
\* Scanner_debug.py); when it ends without an aligned detection it has run
\* exactly that many iterations and shows a timeout message; and a loop
\* that was entered is always left, that is, the session is outside the
\* loop again and again (the same as pc = "align" ~> pc # "align").
C1_AlignmentLoopTerminates ==
    /\ [](pc = "align" => attempt < AttemptCeiling)
    /\ [][(pc = "align" /\ pc' = "idle" /\ ~SawAligned')
            => (attempt' = AttemptCeiling /\ status_msg' \in TimeoutMessages)]_vars
    /\ []<>(pc # "align")

\* The 'A' handler of scanner_app_improved.py has timed out.
C1_Witness ==
    /\ variant = "improved" /\ pc = "idle"
    /\ attempt = ALIGN_ATTEMPTS_IMPROVED
    /\ status_msg = "Alignment timeout"

\* C2: smart capture reaches capture_image only with the aligned flag set
\* after a detection that reported an aligned frame; no iteration of the
\* loop changes frame_count, and an iteration without an aligned detection
\* (the last one included) never leads to capture_image.
C2_CaptureOnlyAfterAligned ==
    /\ [](pc = "capture" => aligned /\ SawAligned)
    /\ [][pc = "align" => frame_count' = frame_count]_vars
    /\ [][(pc = "align" /\ ~SawAligned') => pc' # "capture"]_vars

\* Smart capture aligned in the last iteration the loop allows.
C2_Witness ==
    /\ variant = "improved" /\ pc = "capture" /\ aligned
    /\ attempt = ALIGN_ATTEMPTS_IMPROVED

\* C3: a decision with an aligned status (PERFECT_ALIGNMENT, GOOD_ALIGNMENT,
\* ALIGNED) or an aligned action (CAPTURE, CAPTURE_OK) has both, carries no
\* movement (None in optimized_edge_detect.py, 0 in Scanner_debug.py), and
\* get_motor_command gives no command for it.
C3_AlignedMeansNoMovement ==
    /\ out_opt # None =>
         LET r == Val(out_opt)
         IN  (\/ r.status \in {"PERFECT_ALIGNMENT", "GOOD_ALIGNMENT"}
              \/ r.action \in {"CAPTURE", "CAPTURE_OK"})
             => /\ r.status \in {"PERFECT_ALIGNMENT", "GOOD_ALIGNMENT"}
                /\ r.action \in {"CAPTURE", "CAPTURE_OK"}
                /\ r.movement = None
                /\ out_cmd # None => Val(out_cmd) = Cmd("none", 0)
    /\ out_dbg # None =>
         LET r == Val(out_dbg)
         IN  (r.status = "ALIGNED" \/ r.action = "CAPTURE")
             => /\ r.status = "ALIGNED" /\ r.action = "CAPTURE"
                /\ r.movement = Some(0)

\* An acceptable alignment for which get_motor_command was asked.
C3_Witness ==
    /\ out_opt # None /\ Val(out_opt).action = "CAPTURE_OK"
    /\ out_cmd # None

\* The preview shows both gaps, the left one in the outer 15% on the left,
\* the right one in the outer 15% on the right, both narrower than small,
\* with their midpoint between 40% and 60% of the width.
EdgeAligned(img, small) ==
    /\ img.readable /\ img.left # None /\ img.right # None
    /\ 100 * Val(img.left).center < EDGE_ZONE * img.w
    /\ 100 * Val(img.right).center > (100 - EDGE_ZONE) * img.w
    /\ Val(img.left).width < small /\ Val(img.right).width < small
    /\ TARGET_CENTER_MIN * img.w
         <= 100 * ((Val(img.left).center + Val(img.right).center) \div 2)
    /\ 100 * ((Val(img.left).center + Val(img.right).center) \div 2)
         <= TARGET_CENTER_MAX * img.w

\* C4: the loop goes on to capture only from a preview with both gaps in
\* the edge bands, narrower than the small-gap ceiling, and the frame
\* centre between 40% and 60%.
C4_AlignedOnlyAtEdges ==
    pc = "capture" => EdgeAligned(image, MAX_GAP_SIZE)

\* C5: an image with both gaps in the edge bands, narrower than the
\* script's small-gap ceiling (100 in optimized_edge_detect.py, 40 in
\* Scanner_debug.py) and the frame centre between 40% and 60% is classified
\* PERFECT_ALIGNMENT / CAPTURE, respectively ALIGNED / CAPTURE.
C5_EdgeGapsAligned ==
    /\ (out_opt # None /\ EdgeAligned(image, MAX_GAP_SIZE))
         => /\ Val(out_opt).status = "PERFECT_ALIGNMENT"
            /\ Val(out_opt).action = "CAPTURE"
    /\ (out_dbg # None /\ EdgeAligned(image, DBG_SMALL_GAP))
         => /\ Val(out_dbg).status = "ALIGNED"
            /\ Val(out_dbg).action = "CAPTURE"

\* Left gap at 3%, 20 wide, right gap at 97%, 25 wide, of 4000 pixels.
C5_Witness ==
    /\ image.w = 4000
    /\ image.left = Some(Gap(120, 20)) /\ image.right = Some(Gap(3880, 25))
    /\ out_opt # None /\ out_dbg # None

\* The decisions each detector has for each shape of the gap set.
OptDecisions(img) ==
    IF img.left # None /\ img.right # None
    THEN { <<"PERFECT_ALIGNMENT", "CAPTURE">>, <<"GOOD_ALIGNMENT", "CAPTURE_OK">>,
           <<"FRAME_LEFT", "ADVANCE_MEDIUM">>, <<"FRAME_RIGHT", "BACKUP_MEDIUM">>,
           <<"NEEDS_FINE_TUNE", "ADVANCE_FINE">>,
           <<"NEEDS_FINE_TUNE", "BACKUP_FINE">> }
    ELSE IF img.right # None
    THEN { <<"FRAME_ENTERING_LEFT", "BACKUP_FINE">>,
           <<"MULTIPLE_FRAMES", "ADVANCE_MEDIUM">> }
    ELSE IF img.left # None
    THEN { <<"FRAME_EXITING_RIGHT", "ADVANCE_COARSE">>,
           <<"UNCERTAIN", "ADVANCE_FINE">> }
    ELSE { <<"NO_GAPS_DETECTED", "ADVANCE_COARSE">> }

DbgDecisions(img) ==
    IF img.left # None /\ img.right # None
    THEN { <<"ALIGNED", "CAPTURE">>,
           <<"FRAME_LEFT", "ADVANCE_MEDIUM">>, <<"FRAME_RIGHT", "BACKUP_MEDIUM">>,
           <<"GAPS_LARGE", "ADVANCE_FINE">>, <<"GAPS_LARGE", "BACKUP_FINE">> }
    ELSE IF img.right # None
    THEN { <<"ENTERING_LEFT", "BACKUP_MEDIUM">>,
           <<"TRANSITION", "ADVANCE_COARSE">> }
    ELSE IF img.left # None
    THEN { <<"EXITING_RIGHT", "ADVANCE_COARSE">>,
           <<"UNCERTAIN", "ADVANCE_MEDIUM">> }
    ELSE { <<"NO_GAPS", "ADVANCE_COARSE">> }

\* C6: for a readable image of any shape (no gap, left only, right only,
\* both) either detector returns one of the statuses defined for that
\* shape, with the action that belongs to it.
C6_ClassifierTotal ==
    /\ (out_opt # None /\ image.readable)
         => <<Val(out_opt).status, Val(out_opt).action>> \in OptDecisions(image)
    /\ (out_dbg # None /\ image.readable)
         => <<Val(out_dbg).status, Val(out_dbg).action>> \in DbgDecisions(image)

\* A lone left gap beyond the near zone, classified by both detectors.
C6_Witness ==
    /\ image.readable /\ image.left # None /\ image.right = None
    /\ out_opt # None /\ Val(out_opt).status = "UNCERTAIN"
    /\ out_dbg # None

\* With both gaps found: a frame centre left of 40% gives an advance, one
\* right of 60% a backup, over a distance d related by rel to the hundredfold
\* of (50 - c) / 100 * w, respectively (c - 50) / 100 * w.
BothGapsDistance(rel(_, _)) ==
    (out_opt # None /\ image.readable /\ image.left # None /\ image.right # None)
    => LET r == Val(out_opt)
           fc == Val(r.frame_center)
       IN  /\ 100 * fc < TARGET_CENTER_MIN * image.w
                => /\ r.action \in Forward /\ r.movement # None
                   /\ rel(Val(r.movement),
                          TARGET_CENTER_IDEAL * image.w - 100 * fc)
           /\ 100 * fc > TARGET_CENTER_MAX * image.w
                => /\ r.action \in Backward /\ r.movement # None
                   /\ rel(Val(r.movement),
                          100 * fc - TARGET_CENTER_IDEAL * image.w)

ExactPixels(d, hundredfold) == 100 * d = hundredfold

TruncatedPixels(d, hundredfold) ==
    100 * d <= hundredfold /\ hundredfold <= 100 * d + 100

\* C7 as stated: the distance equals (50 - c) / 100 * w, respectively
\* (c - 50) / 100 * w.
C7_ExactDistance == BothGapsDistance(ExactPixels)

\* C7: the distance is (50 - c) / 100 * w, respectively (c - 50) / 100 * w,
\* cut to whole pixels: never more than that product and at most one pixel
\* less; the direction is forward left of the band and backward right of it.
C7_TruncatedDistance == BothGapsDistance(TruncatedPixels)

\* Left gap at 3%, right gap at 60% of 4000 pixels: frame centre 31.5%,
\* advance by 740 pixels (18.5%).
C7_Witness ==
    /\ image.w = 4000
    /\ image.left = Some(Gap(120, 20)) /\ image.right = Some(Gap(2400, 25))
    /\ out_opt # None /\ Val(out_opt).action = "ADVANCE_MEDIUM"
    /\ Val(out_opt).movement = Some(740)

\* C8: with exactly one gap, a right gap beyond the script's threshold (75%
\* in optimized_edge_detect.py, 70% in Scanner_debug.py) gives a backup, a
\* left gap (below 50%) gives an advance, both over a distance above 0, and
\* get_motor_command turns them into an h, respectively an H command.
C8_SingleGap ==
    /\ (out_opt # None /\ image.readable /\ image.left = None
          /\ image.right # None
          /\ 100 * Val(image.right).center > RIGHT_ONLY_FAR * image.w)
         => /\ Val(out_opt).action \in Backward
            /\ Val(out_opt).movement # None /\ Val(Val(out_opt).movement) > 0
            /\ out_cmd # None => Val(out_cmd).op = "h"
    /\ (out_opt # None /\ image.readable /\ image.left # None
          /\ image.right = None)
         => /\ Val(out_opt).action \in Forward
            /\ Val(out_opt).movement # None /\ Val(Val(out_opt).movement) > 0
            /\ out_cmd # None => Val(out_cmd).op = "H"
    /\ (out_dbg # None /\ image.readable /\ image.left = None
          /\ image.right # None
          /\ 100 * Val(image.right).center > DBG_RIGHT_ONLY_FAR * image.w)
         => /\ Val(out_dbg).action \in Backward
            /\ Val(out_dbg).movement # None /\ Val(Val(out_dbg).movement) > 0
    /\ (out_dbg # None /\ image.readable /\ image.left # None
          /\ image.right = None)
         => /\ Val(out_dbg).action \in Forward
            /\ Val(out_dbg).movement # None /\ Val(Val(out_dbg).movement) > 0

\* A single gap 30 wide at 8% of 4000 pixels, turned into a command.
C8_Witness ==
    /\ image.w = 4000
    /\ image.left = Some(Gap(320, 30)) /\ image.right = None
    /\ out_opt # None /\ Val(out_opt).status = "FRAME_EXITING_RIGHT"
    /\ out_cmd # None /\ out_dbg # None

\* C9: a readable image without gaps is no error: the status is the no-gap
\* status, the action a coarse advance, the distance between 30% and 40% of
\* the width, and get_motor_command gives an H command.
C9_NoGapsAdvance ==
    /\ (out_opt # None /\ image.readable /\ image.left = None
          /\ image.right = None)
         => /\ Val(out_opt).status = "NO_GAPS_DETECTED"
            /\ Val(out_opt).action = "ADVANCE_COARSE"
            /\ Val(out_opt).movement # None
            /\ 30 * image.w <= 100 * Val(Val(out_opt).movement)
            /\ 100 * Val(Val(out_opt).movement) <= 40 * image.w
            /\ out_cmd # None => Val(out_cmd).op = "H"
    /\ (out_dbg # None /\ image.readable /\ image.left = None
          /\ image.right = None)
         => /\ Val(out_dbg).status = "NO_GAPS"
            /\ Val(out_dbg).action = "ADVANCE_COARSE"
            /\ Val(out_dbg).movement # None
            /\ 30 * image.w <= 100 * Val(Val(out_dbg).movement)
            /\ 100 * Val(Val(out_dbg).movement) <= 40 * image.w

\* No gap in a preview 1001 pixels wide, turned into a command.
C9_Witness ==
    /\ image.readable /\ image.w = 1001
    /\ image.left = None /\ image.right = None
    /\ out_opt # None /\ Val(out_opt).movement = Some(400)
    /\ out_cmd # None /\ out_dbg # None

\* C10: the step count of the command an alignment iteration has written
\* to the Arduino is at most the per-iteration maximum (300, the one
\* Scanner_debug.py sets).
C10_StepsWithinMaximum ==
    (out_cmd # None /\ serial_out = out_cmd)
        => Val(out_cmd).steps <= DBG_ABSOLUTE_MAX

-----------------------------------------------------------------------------
(* The conversion of pixel distances to motor steps.                       *)

\* The step count formed for distance i is at least n / at most n.
StepsAtLeast(i, n) ==
    (out_steps # None /\ Val(out_steps).steps[i] # None)
        => Val(Val(out_steps).steps[i]) >= n
StepsAtMost(i, n) ==
    (out_steps # None /\ Val(out_steps).steps[i] # None)
        => Val(Val(out_steps).steps[i]) <= n

\* C11: a decision with a pixel distance other than 0 gives a command of at
\* least one step, in pixels_to_motor_steps, in get_motor_command and in
\* Scanner_debug.py's smart_align_step alike.
C11_NonzeroDistanceMoves ==
    \A i \in {1, 2} : distances[i] # 0 => StepsAtLeast(i, 1)

\* For d1 <= d2 the step count of d1 is at most that of d2.
StepsMonotone ==
    (out_steps # None /\ Val(out_steps).steps[1] # None
       /\ Val(out_steps).steps[2] # None)
        => Val(Val(out_steps).steps[1]) <= Val(Val(out_steps).steps[2])

\* C12: with one pixels_per_step the conversion is monotone, and the step
\* count of every distance other than 0 lies between one step and the
\* maximum (300, the one Scanner_debug.py sets).
C12_MonotoneAndClamped ==
    /\ StepsMonotone
    /\ \A i \in {1, 2} :
         distances[i] # 0
            => StepsAtLeast(i, 1) /\ StepsAtMost(i, DBG_ABSOLUTE_MAX)

-----------------------------------------------------------------------------
(* Calibration of the frame advance from two motor positions.              *)

\* C13: a calibration whose second position is not ahead of the first ends
\* with the error, and leaves frame_advance and the state file as they
\* were before.
C13_NotAheadLeavesCalibration ==
    [][cal_result' = "not_ahead"
         => /\ frame_advance' = frame_advance
            /\ state_file' = state_file]_vars

\* C14: in scanner_app_v2.py and scanner_hybrid.py the frame advance, in
\* the object and in the state file, is absent or above 0, and no H or h
\* command is written with a step count of 0 or less.
C14_FrameAdvancePositive ==
    variant \in {"v2", "hybrid"}
      => /\ frame_advance # None => Val(frame_advance) > 0
         /\ (state_file # None /\ "frame_advance" \in DOMAIN Val(state_file))
              => \/ Val(state_file).frame_advance = None
                 \/ Val(Val(state_file).frame_advance) > 0
         /\ (serial_out # None /\ Val(serial_out).op \in {"H", "h"})
              => Val(serial_out).steps > 0

-----------------------------------------------------------------------------
(* calibrate_frame_spacing on its own: a roll is open and key 'C' is       *)
(* pressed up to MaxKeys times, before scenes that also make the two       *)
(* measurements differ from the session's coarse ones.                     *)

\* The scenes calibrate_frame_spacing finds in its previews: those of the
\* session; for scanner_app_improved.py a centred frame between a wide and a
\* narrow gap (NEEDS_FINE_TUNE); for Scanner_debug.py a right gap 200 pixels
\* left of the aligned one.
CalibrationImages(v) ==
    SessionImages(v)
    \cup IF v = "improved"
         THEN { Image(TRUE, 4000, Some(Gap(120, 120)), Some(Gap(3880, 25)),
                      0) }
         ELSE { Image(TRUE, 4000, Some(Gap(120, 20)), Some(Gap(3680, 25)),
                      0) }

\* The session right after new_roll created a roll and saved its state.
InitCalibrate ==
    /\ variant \in {"improved", "debug"}
    /\ roll_name = TRUE
    /\ frame_count = 0
    /\ position_steps = 0
    /\ pixels_per_step = DefaultPixelsPerStep
    /\ last_frame_advance = None
    /\ state_file = Some(SavedState(0, 0, DefaultPixelsPerStep, None))
    /\ status_msg = "Position first frame"
    /\ pc = "idle" /\ handler = "none" /\ attempt = 0 /\ aligned = FALSE
    /\ serial_out = Some(Cmd("E", 0))
    /\ keys = 0
    /\ image = MissingImage
    /\ out_opt = None /\ out_dbg = None /\ out_cmd = None
    /\ OtherIdle

Cal_Imp == Imp_calibrate_frame_spacing(CalibrationImages(variant), TRUE)

Cal_Dbg == Dbg_calibrate_frame_spacing(CalibrationImages(variant), TRUE)

NextCalibrate == Cal_Imp \/ Cal_Dbg

SpecCalibrate == InitCalibrate /\ [][NextCalibrate]_vars

\* The calibration that just ran measured s steps and p pixels.
Measured(s, p) ==
    measured # None /\ Val(measured).steps = s /\ Val(measured).pixels = p

\* C15: a calibration that measured a step delta s > 0 and a pixel delta
\* p > 0 stores s as the frame advance and p / s as the pixels per step.
C15_CalibrationStoresBoth ==
    [][(/\ measured' # None
        /\ Val(measured').steps > 0
        /\ Val(measured').pixels > 0)
       => /\ last_frame_advance' = Some(Val(measured').steps)
          /\ pixels_per_step' = Ratio(Val(measured').pixels,
                                      Val(measured').steps)]_vars

\* C16: the calibration pair is written as a whole.  Every step of the
\* session either leaves pixels_per_step and last_frame_advance as they were
\* or sets both from the one measurement the calibration just took, and the
\* state file then holds nothing but the old contents or the new pair.
C16_CalibrationPairAtomic ==
    [][LET same == /\ pixels_per_step' = pixels_per_step
                   /\ last_frame_advance' = last_frame_advance
       IN  /\ \/ same
              \/ /\ measured' # None
                 /\ last_frame_advance' = Some(Val(measured').steps)
                 /\ pixels_per_step' = Ratio(Val(measured').pixels,
                                             Val(measured').steps)
           /\ ~same => state_file' \in
                  {state_file,
                   Some(SavedState(frame_count', position_steps',
                                   pixels_per_step', last_frame_advance'))}
      ]_vars

\* The calibration that just ran moved the film forward and took no pixel
\* delta from it: it measured none (no second preview, or no frame found in
\* it) or measured zero.
NoPixelDelta ==
    /\ position_steps' > position_steps
    /\ measured' = None \/ Val(measured').pixels = 0

\* C17 as stated: a calibration with a positive step delta and a zero or
\* unavailable pixel delta stores the step delta as the frame advance and
\* leaves pixels_per_step as it was.
C17_OnlyFrameAdvanceSet ==
    [][NoPixelDelta
       => /\ last_frame_advance'
               = Some(position_steps' - position_steps)
          /\ pixels_per_step' = pixels_per_step]_vars

\* C17 as amended: such a calibration changes neither the frame advance nor
\* pixels_per_step.
C17_NoPixelDeltaStoresNothing ==
    [][NoPixelDelta
       => /\ last_frame_advance' = last_frame_advance
          /\ pixels_per_step' = pixels_per_step]_vars

\* A calibration measured 960 steps and no pixels, and the frame advance is
\* still unset.
C17_Witness ==
    /\ measured # None
    /\ Val(measured).steps > 0 /\ Val(measured).pixels = 0
    /\ last_frame_advance = None

-----------------------------------------------------------------------------
(* The alignment loops on their own, with the history of the loop that     *)
(* runs (failed previews and motor writes for scanner_app_improved.py):    *)
(* a roll is open and 'A' or SPACE is pressed up to MaxKeys times.         *)

InitAlign ==
    /\ variant = "improved"
    /\ roll_name = TRUE
    /\ frame_count = 0
    /\ position_steps = 0
    /\ pixels_per_step = DefaultPixelsPerStep
    /\ last_frame_advance = None
    /\ state_file = Some(SavedState(0, 0, DefaultPixelsPerStep, None))
    /\ status_msg = "Position first frame"
    /\ pc = "idle" /\ handler = "none" /\ attempt = 0 /\ aligned = FALSE
    /\ serial_out = Some(Cmd("E", 0))
    /\ keys = 0
    /\ image = MissingImage
    /\ out_opt = None /\ out_dbg = None /\ out_cmd = None
    /\ OtherIdle

\* One iteration of the for loop, and what it adds to the history: the
\* first iteration of a loop starts the history afresh.
Align_Imp ==
    \E preview_ok \in BOOLEAN, img \in SessionImages(variant),
       fl \in FloatLoss(pixels_per_step), write_ok \in BOOLEAN :
        LET s == Imp_smart_align_step(preview_ok, img, fl, write_ok)
            before == IF attempt = 0 THEN 0 ELSE preview_failures
            wrote == s.cmd # None /\ Val(s.cmd).op # "none"
        IN  /\ Imp_for_attempt(preview_ok, img, fl, write_ok)
            /\ preview_failures' = IF preview_ok THEN 0 ELSE before + 1
            /\ motor_failed' = \/ attempt # 0 /\ motor_failed
                               \/ wrote /\ ~write_ok
            /\ UNCHANGED cancel_at

NextAlign ==
    Imp_KeyA \/ Imp_KeySpace \/ Align_Imp \/ Imp_Capture

SpecAlign == InitAlign /\ [][NextAlign]_vars

\* C18: failed previews in the alignment loop are counted and end the loop
\* with a failure of its own.  Whatever the small number of failures in a
\* row is that ends it, a loop in which all 20 previews failed has ended
\* that way: its message is not the one of the alignment timeout.
C18_CaptureFailureDistinct ==
    (pc = "idle" /\ preview_failures = ALIGN_ATTEMPTS_IMPROVED)
        => status_msg \notin {"Alignment timeout", "Could not align"}

\* C19: an iteration of the alignment loop that leaves a failed motor
\* command in the loop's history is the loop's last, and ends it with the
\* motor failure as its message: the failure ends the loop at once, and no
\* iteration follows it.
C19_MotorFailureEndsRun ==
    [][(attempt' = attempt + 1 /\ motor_failed')
       => (pc' = "idle" /\ status_msg' = "Command error")]_vars

\* C20: no motor command is retried.  For each move requested of web_app.py
\* the movement command is written to the serial port at most once, also
\* when the port fails after the write.
C20_MoveWrittenOnce ==
    (/\ variant = "web"
     /\ serial_out # None
     /\ Val(serial_out).op \in {"f", "F", "b", "B", "H", "h"})
        => motor_writes <= 1

-----------------------------------------------------------------------------
(* web_app_preview_stream.py: the preview worker thread, the request       *)
(* threads that run capture_image, and the /api/status request, as         *)
(* interleaved steps.  A step is what a thread does between two points     *)
(* where another thread can run: a test of the lock, an acquire, a gphoto2 *)
(* subprocess from its start to its end.                                   *)

\* No curses session runs: the variables of the other scripts at rest.
ControllerIdle ==
    /\ roll_name = FALSE
    /\ frame_count = 0
    /\ position_steps = 0
    /\ pixels_per_step = DefaultPixelsPerStep
    /\ last_frame_advance = None
    /\ state_file = None
    /\ status_msg = "Ready"
    /\ pc = "idle" /\ handler = "none" /\ attempt = 0 /\ aligned = FALSE
    /\ serial_out = None
    /\ keys = 0
    /\ image = MissingImage
    /\ out_opt = None /\ out_dbg = None /\ out_cmd = None
    /\ CalIdle /\ StepIdle /\ ManualIdle /\ CountIdle /\ GapIdle
    /\ TailIdle

\* scanner = FilmScanner(): __init__ has run check_camera once.
InitStream ==
    /\ variant = "stream"
    /\ ControllerIdle
    /\ camera_op_lock = FALSE
    /\ preview_pc = "off" /\ preview_stop = FALSE /\ last_frame = FALSE
    /\ capture_pc = [r \in Requests |-> "idle"]
    /\ capture_depth = [r \in Requests |-> 0]
    /\ last_capture_failed = FALSE
    /\ status_pc = "idle"
    /\ camera_connected \in BOOLEAN
    /\ viewfinder_enabled = FALSE

StreamRest == <<sessionVars, runVars, detectVars, calVars, alignVars,
                stepVars, manualVars>>

\* start_preview with no worker of an earlier start_preview left: a new
\* worker thread.  (SpecPreview follows start_preview next to a worker
\* that stop_preview has given up waiting for.)
Pv_start ==
    /\ preview_pc = "off"
    /\ preview_stop' = FALSE /\ preview_pc' = "viewfinder_on"
    /\ UNCHANGED <<StreamRest, camera_op_lock, last_frame, capture_pc,
                   capture_depth, last_capture_failed, status_pc,
                   camera_connected, viewfinder_enabled>>
    /\ UNCHANGED laterVars

\* stop_preview: sets the event (the join gives up after 2 s).
Pv_stop ==
    /\ preview_pc # "off" /\ ~preview_stop
    /\ preview_stop' = TRUE
    /\ UNCHANGED <<StreamRest, camera_op_lock, preview_pc, last_frame,
                   capture_pc, capture_depth, last_capture_failed,
                   status_pc, camera_connected, viewfinder_enabled>>
    /\ UNCHANGED laterVars

\* _preview_loop before and after the while loop: gphoto2 --set-config
\* viewfinder=1 / viewfinder=0, run without a look at the lock.
Pv_viewfinder ==
    /\ preview_pc \in {"viewfinder_on", "viewfinder_off"}
    /\ preview_pc' = IF preview_pc = "viewfinder_on" THEN "test" ELSE "off"
    /\ UNCHANGED <<StreamRest, camera_op_lock, preview_stop, last_frame,
                   capture_pc, capture_depth, last_capture_failed,
                   status_pc, camera_connected, viewfinder_enabled>>
    /\ UNCHANGED laterVars

\* Fault: the worker starts its subprocess whatever the lock says.
preview_tick_unlocked(stop, locked) ==
    IF stop THEN "viewfinder_off" ELSE "gphoto"

\* The tick a worker at the head of the while loop takes: out of the loop
\* when the event is set, a skipped tick (sleep 0.02, continue) when the lock
\* is seen locked, else on to the gphoto2 --capture-preview subprocess.
preview_tick(stop, locked) ==
    IF stop THEN "viewfinder_off"
    ELSE IF locked THEN "skip"
    ELSE "gphoto"

\* _preview_loop, lines 181-186: the head of the while loop.
Pv_test ==
    /\ preview_pc = "test"
    /\ preview_pc' = preview_tick(preview_stop, camera_op_lock)
    /\ UNCHANGED <<StreamRest, camera_op_lock, preview_stop, last_frame,
                   capture_pc, capture_depth, last_capture_failed,
                   status_pc, camera_connected, viewfinder_enabled>>
    /\ UNCHANGED laterVars

\* _preview_loop, lines 188-211: the end of the gphoto2 --capture-preview
\* subprocess (a frame, an error or a timeout) and the pacing sleep; and the
\* end of the sleep of a skipped tick.
Pv_gphoto ==
    /\ preview_pc \in {"gphoto", "skip"}
    /\ \E frame \in BOOLEAN :
         last_frame' = IF preview_pc = "gphoto" /\ frame THEN TRUE
                       ELSE last_frame
    /\ preview_pc' = "test"
    /\ UNCHANGED <<StreamRest, camera_op_lock, preview_stop, capture_pc,
                   capture_depth, last_capture_failed, status_pc,
                   camera_connected, viewfinder_enabled>>
    /\ UNCHANGED laterVars

\* /api/test_capture: a request thread enters capture_image(retry=True).
Cap_call(r) ==
    /\ capture_pc[r] = "idle"
    /\ capture_pc' = [capture_pc EXCEPT ![r] = "acquire"]
    /\ capture_depth' = [capture_depth EXCEPT ![r] = 0]
    /\ UNCHANGED <<StreamRest, camera_op_lock, preview_pc, preview_stop,
                   last_frame, last_capture_failed, status_pc,
                   camera_connected, viewfinder_enabled>>
    /\ UNCHANGED laterVars

\* capture_image, line 117: camera_op_lock.acquire() returns once the lock
\* is free, whoever holds it: threading.Lock is not reentrant.
Cap_acquire(r) ==
    /\ capture_pc[r] = "acquire"
    /\ ~camera_op_lock
    /\ camera_op_lock' = TRUE
    /\ capture_pc' = [capture_pc EXCEPT ![r] = "gphoto"]
    /\ UNCHANGED <<StreamRest, preview_pc, preview_stop, last_frame,
                   capture_depth, last_capture_failed, status_pc,
                   camera_connected, viewfinder_enabled>>
    /\ UNCHANGED laterVars

\* capture_image, lines 119-158: the gphoto2 subprocesses up to the end of
\* --capture-image.  shot: "ok" (return code 0 or a transient error),
\* "failed", "raised" (TimeoutExpired or another exception).  A failed
\* first try calls capture_image(retry=False) from inside the try block.
Cap_gphoto(r) ==
    /\ capture_pc[r] = "gphoto"
    /\ \E shot \in {"ok", "failed", "raised"} :
         /\ last_capture_failed' = (shot # "ok")
         /\ IF shot = "failed" /\ capture_depth[r] = 0
            THEN /\ capture_pc' = [capture_pc EXCEPT ![r] = "acquire"]
                 /\ capture_depth' = [capture_depth EXCEPT ![r] = 1]
            ELSE /\ capture_pc' = [capture_pc EXCEPT ![r] = "finally"]
                 /\ UNCHANGED capture_depth
    /\ UNCHANGED <<StreamRest, camera_op_lock, preview_pc, preview_stop,
                   last_frame, status_pc, camera_connected,
                   viewfinder_enabled>>
    /\ UNCHANGED laterVars

\* capture_image, lines 163-168: finally releases the lock if it is locked;
\* the inner call then returns into the outer call's finally.
Cap_finally(r) ==
    /\ capture_pc[r] = "finally"
    /\ camera_op_lock' = FALSE
    /\ IF capture_depth[r] = 1
       THEN /\ capture_depth' = [capture_depth EXCEPT ![r] = 0]
            /\ UNCHANGED capture_pc
       ELSE /\ capture_pc' = [capture_pc EXCEPT ![r] = "idle"]
            /\ UNCHANGED capture_depth
    /\ UNCHANGED <<StreamRest, preview_pc, preview_stop, last_frame,
                   last_capture_failed, status_pc, camera_connected,
                   viewfinder_enabled>>
    /\ UNCHANGED laterVars

\* What check_camera / check_viewfinder_state does first: return the last
\* known value when the lock is seen locked, else run gphoto2.
status_tick(locked, skipped, subprocess) ==
    IF locked THEN skipped ELSE subprocess

\* /api/status: check_camera, then check_viewfinder_state.
St_call ==
    /\ status_pc = "idle"
    /\ status_pc' = "check_camera"
    /\ UNCHANGED <<StreamRest, camera_op_lock, preview_pc, preview_stop,
                   last_frame, capture_pc, capture_depth,
                   last_capture_failed, camera_connected,
                   viewfinder_enabled>>
    /\ UNCHANGED laterVars

\* check_camera line 75 and check_viewfinder_state line 98.
St_test ==
    /\ status_pc \in {"check_camera", "check_viewfinder_state"}
    /\ status_pc' = IF status_pc = "check_camera"
                    THEN status_tick(camera_op_lock,
                             "check_viewfinder_state", "auto_detect")
                    ELSE status_tick(camera_op_lock, "idle", "get_config")
    /\ UNCHANGED <<StreamRest, camera_op_lock, preview_pc, preview_stop,
                   last_frame, capture_pc, capture_depth,
                   last_capture_failed, camera_connected,
                   viewfinder_enabled>>
    /\ UNCHANGED laterVars

\* The end of gphoto2 --auto-detect (lines 78-91) or of gphoto2 --get-config
\* viewfinder (lines 100-111).  answer: "yes", "no", "none" (an exception,
\* or output that says neither).
St_gphoto ==
    /\ status_pc \in {"auto_detect", "get_config"}
    /\ \E answer \in {"yes", "no", "none"} :
         IF status_pc = "auto_detect"
         THEN /\ camera_connected' = IF answer = "none"
                                     THEN camera_connected
                                     ELSE answer = "yes"
              /\ status_pc' = "check_viewfinder_state"
              /\ UNCHANGED viewfinder_enabled
         ELSE /\ viewfinder_enabled' = IF answer = "none"
                                       THEN viewfinder_enabled
                                       ELSE answer = "yes"
              /\ status_pc' = "idle"
              /\ UNCHANGED camera_connected
    /\ UNCHANGED <<StreamRest, camera_op_lock, preview_pc, preview_stop,
                   last_frame, capture_pc, capture_depth,
                   last_capture_failed>>
    /\ UNCHANGED laterVars

NextStream ==
    \/ Pv_start \/ Pv_stop \/ Pv_viewfinder \/ Pv_test \/ Pv_gphoto
    \/ \E r \in Requests : Cap_call(r)
    \/ \E r \in Requests : Cap_acquire(r)
    \/ \E r \in Requests : Cap_gphoto(r)
    \/ \E r \in Requests : Cap_finally(r)
    \/ St_call \/ St_test \/ St_gphoto

SpecStream == InitStream /\ [][NextStream]_vars

\* C21: the preview worker and a capture never use the camera at the same
\* time: no gphoto2 --capture-preview is in progress while a capture holds
\* camera_op_lock, whichever of the two started first.
C21_PreviewExcludesCapture == ~(preview_pc = "gphoto" /\ camera_op_lock)

\* C22: while camera_op_lock is held, the preview loop and the status
\* checks skip their tick and keep the last known value: the worker at the
\* head of its loop goes to its short sleep (or leaves the loop when
\* stopped) and keeps its last frame, check_camera returns camera_connected
\* and check_viewfinder_state returns viewfinder_enabled as they were; none
\* of them waits for the lock, so each of these steps can be taken while
\* the lock is held.
C22_LockedTickSkipped ==
    /\ [][camera_op_lock =>
           /\ (preview_pc = "test" /\ preview_pc' # preview_pc)
                => /\ preview_pc' \in {"skip", "viewfinder_off"}
                   /\ last_frame' = last_frame
           /\ (status_pc = "check_camera" /\ status_pc' # status_pc)
                => /\ status_pc' = "check_viewfinder_state"
                   /\ camera_connected' = camera_connected
           /\ (status_pc = "check_viewfinder_state" /\ status_pc' # status_pc)
                => /\ status_pc' = "idle"
                   /\ viewfinder_enabled' = viewfinder_enabled]_vars
    /\ [](camera_op_lock =>
           /\ preview_pc = "test" => ENABLED Pv_test
           /\ status_pc \in {"check_camera", "check_viewfinder_state"}
                => ENABLED St_test)

\* The lock is held and the worker is in the sleep of a skipped tick.
C22_Witness == camera_op_lock /\ preview_pc = "skip"


-----------------------------------------------------------------------------
\* A cancel request during an alignment loop (scanner_app_improved.py
\* run(), Scanner_debug.py run()).

\* The session right after the 'N' key has opened a new roll.
InitCancel ==
    /\ variant \in {"improved", "debug"}
    /\ roll_name = TRUE
    /\ frame_count = 0
    /\ position_steps = 0
    /\ pixels_per_step = DefaultPixelsPerStep
    /\ last_frame_advance = None
    /\ state_file = Some(SavedState(0, 0, DefaultPixelsPerStep, None))
    /\ status_msg = "Position first frame"
    /\ pc = "idle" /\ handler = "none" /\ attempt = 0 /\ aligned = FALSE
    /\ serial_out = Some(Cmd("E", 0))
    /\ keys = 1
    /\ image = MissingImage
    /\ out_opt = None /\ out_dbg = None /\ out_cmd = None
    /\ OtherIdle

\* The latest iteration count at which the cancel key is typed.
MaxCancelAt == 1

\* The user types 'q' or ESC while an alignment loop runs.  The loop calls
\* no getch(), so curses keeps the key until run() reads its next key
\* after the handler has returned.
Press_Quit ==
    /\ pc = "align"
    /\ cancel_at = None
    /\ attempt <= MaxCancelAt
    /\ cancel_at' = Some(attempt)
    /\ UNCHANGED <<sessionVars, runVars, detectVars, calVars,
                   preview_failures, motor_failed, stepVars, manualVars,
                   farVars>>

\* run() has not read a 'q' or ESC: once it does, it leaves its while loop
\* and the program ends.
NoQuitRead == cancel_at = None \/ pc # "idle"

NextCancel ==
    \/ Press_Quit
    \/ NoQuitRead /\ Imp_KeyA
    \/ NoQuitRead /\ Imp_KeySpace
    \/ NoQuitRead /\ Imp_AlignStep
    \/ NoQuitRead /\ Imp_Capture
    \/ NoQuitRead /\ Dbg_KeyC
    \/ NoQuitRead /\ Dbg_KeyA
    \/ NoQuitRead /\ Dbg_KeySpace
    \/ NoQuitRead /\ Dbg_AlignStep
    \/ NoQuitRead /\ Dbg_Capture

SpecCancel == InitCancel /\ [][NextCancel]_vars

\* C23: the alignment loop looks for a cancel request at each iteration
\* boundary: once 'q' or ESC has been typed, the iteration in progress is
\* the last one the loop starts or finishes.
C23_CancelStopsLoop ==
    cancel_at # None => attempt <= Val(cancel_at) + 1


-----------------------------------------------------------------------------
(* scanner_desktop.py: the frame counters of FilmScannerApp.  calibration_  *)
(* complete is held as mode = "calibrated"; the state file as the record    *)
(* of ManualState.  A dialog is modelled by its answer.                     *)

DESKTOP_COARSE_STEP == 64
DESKTOP_DEFAULT_ADVANCE == 1200

Desk_Rest ==
    <<variant, position_steps, pixels_per_step, last_frame_advance,
      status_msg, pc, handler, attempt, aligned, serial_out, detectVars,
      calVars, alignVars, stepVars, frame1_pos, cal_result, arduino,
      motor_writes, streamVars, gapVars, tailVars>>

\* save_state, as called once new_roll has set self.state_file: the file
\* after it.
Desk_save_state(fc, sc, fis, pos, fa, md) ==
    Some(ManualState(fc, sc, fis, pos, fa, md))

InitCount ==
    /\ variant = "desktop"
    /\ ControllerIdle
    /\ StreamIdle

\* new_roll.  entry: "empty" no name typed; "fresh" the roll's folder holds
\* no state file; "resume" and "startover" the answer when it holds one.
Desk_new_roll ==
    /\ variant = "desktop"
    /\ ReadManualKey
    /\ \E entry \in {"empty", "fresh", "resume", "startover"} :
         /\ entry \in {"resume", "startover"} => state_file # None
         /\ IF entry = "empty"
            THEN UNCHANGED <<roll_name, frame_count, strip_count,
                             frames_in_strip, position, frame_advance, mode,
                             state_file, captures>>
            ELSE IF entry = "resume"
            THEN LET f == Val(state_file)
                 IN  /\ roll_name' = TRUE
                     /\ frame_count' = f.frame_count
                     /\ strip_count' = f.strip_count
                     /\ frames_in_strip' = f.frames_in_strip
                     /\ position' = f.position
                     /\ frame_advance' = f.frame_advance
                     /\ mode' = f.mode
                     /\ UNCHANGED <<state_file, captures>>
            ELSE /\ roll_name' = TRUE
                 /\ frame_count' = 0 /\ strip_count' = 0
                 /\ frames_in_strip' = 0
                 /\ frame_advance' = None /\ mode' = "manual"
                 /\ state_file' = Desk_save_state(0, 0, 0, position, None,
                                                  "manual")
                 /\ captures' = 0
                 /\ UNCHANGED position
    /\ UNCHANGED Desk_Rest

\* The arrow keys and advance_frame: ArduinoController.send_command adds
\* the steps to the position once the write has not raised.
Desk_move ==
    /\ variant = "desktop"
    /\ ReadManualKey
    /\ \E cmd \in {"F", "B", "H"}, write_ok \in BOOLEAN :
         LET n == IF cmd = "F" THEN DESKTOP_COARSE_STEP
                  ELSE IF cmd = "B" THEN -DESKTOP_COARSE_STEP
                  ELSE IF frame_advance # None /\ Val(frame_advance) # 0
                  THEN Val(frame_advance)
                  ELSE DESKTOP_DEFAULT_ADVANCE
         IN  /\ position' = IF write_ok THEN position + n ELSE position
             /\ ManualRange(position')
    /\ UNCHANGED <<roll_name, frame_count, strip_count, frames_in_strip,
                   frame_advance, mode, state_file, captures>>
    /\ UNCHANGED Desk_Rest

\* start_calibration.  stop: the dialog that was cancelled ("intro",
\* "frame1", "frame2") or "none"; moved: the steps the film was moved
\* by between the two frames.  No call of the camera is made.
Desk_start_calibration ==
    /\ variant = "desktop"
    /\ ReadManualKey
    /\ \E stop \in {"intro", "frame1", "frame2", "none"},
          moved \in {0, DESKTOP_COARSE_STEP, -DESKTOP_COARSE_STEP} :
         LET frame1_at == position
             frame2_at == position + moved
             spacing == frame2_at - frame1_at
         IN  IF ~roll_name \/ stop = "intro"
             THEN UNCHANGED <<frame_count, strip_count, frames_in_strip,
                              position, frame_advance, mode, state_file>>
             ELSE IF stop = "frame1"
             THEN /\ strip_count' = 1 /\ frames_in_strip' = 0
                  /\ UNCHANGED <<frame_count, position, frame_advance,
                                 mode, state_file>>
             ELSE /\ frame_count < MaxManualFrames - 1
                  /\ ManualRange(frame2_at)
                  /\ strip_count' = 1
                  /\ IF stop = "frame2"
                     THEN /\ frame_count' = frame_count + 1
                          /\ frames_in_strip' = 1
                          /\ UNCHANGED <<position, frame_advance, mode>>
                          /\ state_file' = Desk_save_state(
                                 frame_count + 1, 1, 1, position,
                                 frame_advance, mode)
                     ELSE IF spacing <= 0
                     THEN /\ frame_count' = frame_count + 1
                          /\ frames_in_strip' = 1
                          /\ position' = frame2_at
                          /\ frame_advance' = Some(spacing)
                          /\ UNCHANGED mode
                          /\ state_file' = Desk_save_state(
                                 frame_count + 1, 1, 1, position,
                                 frame_advance, mode)
                     ELSE /\ frame_count' = frame_count + 2
                          /\ frames_in_strip' = 2
                          /\ position' = frame2_at
                          /\ frame_advance' = Some(spacing)
                          /\ mode' = "calibrated"
                          /\ state_file' = Desk_save_state(
                                 frame_count + 2, 1, 2, frame2_at,
                                 Some(spacing), "calibrated")
    /\ UNCHANGED <<roll_name, captures>>
    /\ UNCHANGED Desk_Rest

\* new_strip.  ok: the answer to its dialog.
Desk_new_strip ==
    /\ variant = "desktop"
    /\ ReadManualKey
    /\ \E ok \in BOOLEAN :
         IF ~roll_name \/ mode # "calibrated"
         THEN UNCHANGED <<strip_count, frames_in_strip, state_file>>
         ELSE /\ strip_count' = strip_count + 1
              /\ frames_in_strip' = 0
              /\ state_file' = IF ok
                               THEN Desk_save_state(frame_count,
                                        strip_count + 1, 0, position,
                                        frame_advance, mode)
                               ELSE state_file
    /\ UNCHANGED <<roll_name, frame_count, position, frame_advance, mode,
                   captures>>
    /\ UNCHANGED Desk_Rest

\* capture_frame.  anyway: the answer to "capture anyway?" when not
\* calibrated; cam_ok: CameraController.capture_image returned True.
Desk_capture_frame ==
    /\ variant = "desktop"
    /\ ReadManualKey
    /\ \E anyway \in BOOLEAN, cam_ok \in BOOLEAN :
         LET strip == IF frames_in_strip = 0 /\ strip_count = 0 THEN 1
                      ELSE strip_count
         IN  IF ~roll_name \/ (mode # "calibrated" /\ ~anyway)
             THEN UNCHANGED <<frame_count, strip_count, frames_in_strip,
                              state_file, captures>>
             ELSE IF ~cam_ok
             THEN /\ strip_count' = strip
                  /\ UNCHANGED <<frame_count, frames_in_strip, state_file,
                                 captures>>
             ELSE /\ frame_count < MaxManualFrames
                  /\ strip_count' = strip
                  /\ frame_count' = frame_count + 1
                  /\ frames_in_strip' = frames_in_strip + 1
                  /\ captures' = captures + 1
                  /\ state_file' = Desk_save_state(frame_count + 1, strip,
                                       frames_in_strip + 1, position,
                                       frame_advance, mode)
    /\ UNCHANGED <<roll_name, position, frame_advance, mode>>
    /\ UNCHANGED Desk_Rest

NextCount ==
    \/ Desk_new_roll \/ Desk_move \/ Desk_start_calibration
    \/ Desk_new_strip \/ Desk_capture_frame

SpecCount == InitCount /\ [][NextCount]_vars

\* C24: frame_count and frames_in_strip go up only when the camera has
\* taken an image, by one per image, and the frame_count in the state file
\* is never above the number of images taken.
C24_CountedOnlyWhenCaptured ==
    /\ [](state_file # None => Val(state_file).frame_count <= captures)
    /\ [][(frame_count' > frame_count \/ frames_in_strip' > frames_in_strip)
            => /\ captures' = captures + 1
               /\ frame_count' = frame_count + 1
               /\ frames_in_strip' = frames_in_strip + 1]_vars
    /\ [][captures' = captures + 1
            => /\ frame_count' = frame_count + 1
               /\ Val(state_file').frame_count = frame_count + 1]_vars


-----------------------------------------------------------------------------
(* The tracked motor position (scanner_app_improved.py and Scanner_debug.py *)
(* send_command).                                                           *)

\* The steps of an n-step command, positive = advance.
SignedSteps(cmd) ==
    IF cmd.op = "H" THEN cmd.steps
    ELSE IF cmd.op = "h" THEN -cmd.steps
    ELSE 0

\* C25: in an alignment iteration and in the advance after a capture, a
\* forward command of n steps that is written adds exactly n to the tracked
\* position, a backward one takes exactly n off it, and a command whose
\* write fails leaves the position as it was.
C25_PositionFollowsCommand ==
    [][(pc \in {"align", "capture"})
         => ( /\ (serial_out' # serial_out
                    /\ Val(serial_out').op \in {"H", "h"})
                 => position_steps' =
                        position_steps + SignedSteps(Val(serial_out'))
              /\ (serial_out' = serial_out /\ pc = "align")
                 => \/ position_steps' = position_steps
                    \/ /\ out_cmd' = serial_out
                       /\ position_steps' =
                              position_steps + SignedSteps(Val(serial_out)) )
      ]_vars

\* A backward command of n > 0 steps has just been written in an alignment
\* loop.
C25_Witness ==
    /\ attempt > 0 /\ out_cmd # None /\ out_cmd = serial_out
    /\ Val(serial_out).op = "h" /\ Val(serial_out).steps > 0


-----------------------------------------------------------------------------
(* save_state and load_state of scanner_app_v2.py and web_app.py.           *)

\* A FilmScanner object as __init__ leaves it, with a roll named and the
\* state file of that roll as `file`.
Man_Fresh(file) ==
    [Man_Now EXCEPT !.roll_name = TRUE, !.frame_count = 0,
                    !.state_file = file, !.position = 0,
                    !.frame_advance = IF variant = "hybrid"
                                      THEN Some(HYBRID_FRAME_ADVANCE)
                                      ELSE None,
                    !.mode = "manual", !.strip_count = 0,
                    !.frames_in_strip = 0]

\* The session fields of a FilmScanner object.
SessionFields(s) ==
    <<s.frame_count, s.strip_count, s.frames_in_strip, s.position,
      s.frame_advance, s.mode>>

-----------------------------------------------------------------------------
(* The run-length loop of the gap detectors: detect_frame_gaps of           *)
(* optimized_edge_detect.py (variant "improved"), detect_frame_gaps_debug   *)
(* of Scanner_debug.py (variant "debug") and FilmScanner.detect_gap of      *)
(* scanner_app.py (variant "app").  Column i of the code is mask[i + 1].    *)

APP_MIN_GAP_WIDTH == 7
APP_MAX_GAP_WIDTH == 100

GapDetectors == {"improved", "debug", "app"}

\* The test on gap_width before a region is appended.
valid_gap_width_any(gap_width, v) ==
    gap_width > 0

valid_gap_width(gap_width, v) ==
    IF v = "app"
    THEN APP_MIN_GAP_WIDTH < gap_width /\ gap_width < APP_MAX_GAP_WIDTH
    ELSE MIN_GAP_WIDTH < gap_width /\ gap_width < MAX_GAP_WIDTH

\* The dict appended for the run gap_start .. gap_end - 1 (scanner_app.py
\* keeps center and width only).
GapRegion(gap_start, gap_end) ==
    [start |-> gap_start, end |-> gap_end, width |-> gap_end - gap_start,
     center |-> (gap_start + gap_end) \div 2]

\* The body of `for i in range(len(gap_mask))` at column i, on the loop's
\* variables in_gap, gap_start and gaps.
gap_loop_body(st, i, mask, v) ==
    IF mask[i + 1] /\ ~st.in_gap
    THEN [st EXCEPT !.gap_start = i, !.in_gap = TRUE]
    ELSE IF ~mask[i + 1] /\ st.in_gap
    THEN [st EXCEPT !.in_gap = FALSE,
                    !.gaps = IF valid_gap_width(i - st.gap_start, v)
                             THEN Append(@, GapRegion(st.gap_start, i))
                             ELSE @]
    ELSE st

\* The loop's variables after the body has run for i = from, ..., to - 1
\* in this order.  The range is halved, and the first half worked out
\* before the second is begun, to keep the evaluation shallow.
RECURSIVE gap_loop(_, _, _, _, _)
gap_loop(st, from, to, mask, v) ==
    IF from >= to THEN st
    ELSE IF to = from + 1 THEN gap_loop_body(st, from, mask, v)
    ELSE LET mid == (from + to) \div 2
             half == gap_loop(st, from, mid, mask, v)
         IN  IF half.in_gap \in BOOLEAN
             THEN gap_loop(half, mid, to, mask, v)
             ELSE half

\* The list gaps when the loop is left: nothing follows the loop.
find_gaps(mask, v) ==
    gap_loop([in_gap |-> FALSE, gap_start |-> 0, gaps |-> <<>>],
             0, Len(mask), mask, v).gaps

\* Masks: `lead` columns of film, a run of `first` gap columns, `between`
\* columns of film, a run of `second` gap columns, `trail` columns of film.
MaskOf(lead, first, between, second, trail) ==
    [k \in 1 .. (lead + first + between + second + trail) |->
        \/ lead < k /\ k <= lead + first
        \/ /\ lead + first + between < k
           /\ k <= lead + first + between + second]

\* Run widths around the ends of the two bands.
RunWidths == {3, 7, 8, 10, 11, 30, 99, 100, 249, 250}

GapMasks ==
    { MaskOf(lead, first, 2, second, trail) :
        lead \in {0, 1}, first \in RunWidths,
        second \in RunWidths \cup {0}, trail \in {0, 3} }

GapRest ==
    <<roll_name, frame_count, position_steps, pixels_per_step,
      last_frame_advance, state_file, status_msg, runVars, detectVars,
      calVars, alignVars, stepVars, manualVars, streamVars, countVars,
      tailVars>>

InitGaps ==
    /\ variant \in GapDetectors
    /\ roll_name = FALSE
    /\ frame_count = 0
    /\ position_steps = 0
    /\ pixels_per_step = DefaultPixelsPerStep
    /\ last_frame_advance = None
    /\ state_file = None
    /\ status_msg = "Ready"
    /\ pc = "idle" /\ handler = "none" /\ attempt = 0 /\ aligned = FALSE
    /\ serial_out = None
    /\ keys = 0
    /\ image = MissingImage
    /\ out_opt = None /\ out_dbg = None /\ out_cmd = None
    /\ CalIdle /\ StepIdle /\ ManualIdle /\ StreamIdle /\ CountIdle
    /\ TailIdle
    /\ gap_mask \in GapMasks
    /\ out_gaps = None

\* The loop runs over the mask of the preview at hand.
Gap_detect ==
    /\ out_gaps = None
    /\ out_gaps' = Some(find_gaps(gap_mask, variant))
    /\ UNCHANGED <<variant, gap_mask, GapRest>>

\* The next preview.
Gap_next_preview ==
    /\ out_gaps # None
    /\ gap_mask' \in GapMasks
    /\ out_gaps' = None
    /\ UNCHANGED <<variant, GapRest>>

NextGaps == Gap_detect \/ Gap_next_preview

SpecGaps == InitGaps /\ [][NextGaps]_vars

\* The maximal runs of gap columns of a mask, as <<start, end>> with the
\* run in columns start .. end - 1.
MaximalRuns(mask) ==
    LET n == Len(mask)
        starts == { a \in 0 .. n - 1 :
                      mask[a + 1] /\ (a = 0 \/ ~mask[a]) }
        ends == { b \in 1 .. n :
                    mask[b] /\ (b = n \/ ~mask[b + 1]) }
    IN  { r \in starts \X ends :
            /\ r[1] < r[2]
            /\ \A e \in ends : e > r[1] => r[2] <= e }

\* C27: the list the detector returns holds exactly the maximal runs of
\* gap columns whose width is inside the detector's band, the run that
\* reaches the last column included, each once, from left to right and
\* without overlap.
C27_ExactlyTheValidRuns ==
    out_gaps # None
    => LET gaps == Val(out_gaps)
       IN  /\ { <<gaps[k].start, gaps[k].end>> : k \in DOMAIN gaps }
                = { r \in MaximalRuns(gap_mask) :
                      valid_gap_width(r[2] - r[1], variant) }
           /\ \A k \in DOMAIN gaps :
                k > 1 => gaps[k - 1].end <= gaps[k].start

\* C28: every region returned has its width inside the band of 7 to 250
\* columns, start < end, width = end - start, start <= center < end and
\* its center inside the image.
C28_RegionsWellFormed ==
    out_gaps # None
    => \A k \in DOMAIN Val(out_gaps) :
         LET g == Val(out_gaps)[k]
         IN  /\ APP_MIN_GAP_WIDTH <= g.width /\ g.width <= MAX_GAP_WIDTH
             /\ g.start < g.end /\ g.width = g.end - g.start
             /\ g.start <= g.center /\ g.center < g.end
             /\ 0 <= g.center /\ g.center < Len(gap_mask)

\* Two regions were returned, one of the smallest and one of the largest
\* width the band of the detector lets through.
C28_Witness ==
    /\ out_gaps # None /\ Len(Val(out_gaps)) = 2
    /\ Val(out_gaps)[1].width = MIN_GAP_WIDTH + 1
    /\ Val(out_gaps)[2].width = MAX_GAP_WIDTH - 1


\* C29: pixels_per_step is strictly positive in every state, in the object
\* and in the state file load_state reads it from: it is the default 2.0
\* or the ratio of a positive pixel delta to a positive step delta.
C29_PixelsPerStepPositive ==
    /\ pixels_per_step.num > 0 /\ pixels_per_step.den > 0
    /\ state_file # None
       => /\ Val(state_file).pixels_per_step.num > 0
          /\ Val(state_file).pixels_per_step.den > 0

\* A calibrated ratio is in use and an alignment iteration has converted a
\* pixel distance with it.
C29_Witness ==
    /\ pixels_per_step # DefaultPixelsPerStep
    /\ attempt > 0 /\ out_cmd # None /\ Val(out_cmd).op \in {"H", "h"}


-----------------------------------------------------------------------------
(* web_app.py, route /api/test_capture, next to the routes that count       *)
(* frames.                                                                  *)

InitTest ==
    /\ variant = "web"
    /\ roll_name = FALSE
    /\ frame_count = 0
    /\ position_steps = 0
    /\ pixels_per_step = DefaultPixelsPerStep
    /\ last_frame_advance = None
    /\ state_file = None
    /\ status_msg = "Ready"
    /\ pc = "idle" /\ handler = "none" /\ attempt = 0 /\ aligned = FALSE
    /\ serial_out = Some(Cmd("E", 0))
    /\ keys = 0
    /\ image = MissingImage
    /\ out_opt = None /\ out_dbg = None /\ out_cmd = None
    /\ OtherIdle

\* test_capture.  connected: check_camera(); cam_ok: gphoto2 ended with
\* return code 0.  capture_image counts the frame and saves the state;
\* the saved counters are then put back into the object.
Web_test_capture ==
    /\ variant = "web" /\ pc = "idle"
    /\ ReadManualKey
    /\ \E connected \in BOOLEAN, cam_ok \in BOOLEAN :
         LET saved_count == frame_count
             saved_strip == frames_in_strip
             shot == Man_captured(Man_Now, cam_ok)
         IN  Man_Set(
               IF ~connected
               THEN Man_Now
               ELSE [shot EXCEPT !.frame_count = saved_count,
                                 !.frames_in_strip = saved_strip,
                                 !.status_msg =
                                     IF shot.ok
                                     THEN "Test capture successful"
                                     ELSE "Test capture failed"])

NextTest ==
    Man_KeyN \/ Web_capture \/ Web_calibrate \/ Web_test_capture

SpecTest == InitTest /\ [][NextTest]_vars

\* C30: a request to /api/test_capture, whether its capture succeeds or
\* fails, leaves frame_count and frames_in_strip as they were, in the
\* object and in the state file.
C30_TestCaptureNotCounted ==
    [][(keys' = keys + 1
          /\ status_msg' \in {"Test capture successful",
                              "Test capture failed"})
         => /\ frame_count' = frame_count
            /\ frames_in_strip' = frames_in_strip
            /\ state_file' = state_file]_vars


-----------------------------------------------------------------------------
(* scanner_app_v2.py, capture_frame: the capture and the advance after it.  *)

\* Sessions of the strip workflow: scanner_app_v2.py and web_app.py, started
\* with or without the state file of an earlier session on disk.
StripVariants == {"v2", "web"}

\* The state file a calibration leaves behind when frame 2 lies one coarse
\* step after frame 1 of a fresh roll.
CalibratedRoll(v) ==
    LET adv == Man_PositionAfter(0, Cmd("F", 0), v)
    IN  ManualState(2, 1, 2, adv, Some(adv), "calibrated")

InitStrip ==
    /\ variant \in StripVariants
    /\ roll_name = FALSE
    /\ frame_count = 0
    /\ position_steps = 0
    /\ pixels_per_step = DefaultPixelsPerStep
    /\ last_frame_advance = None
    /\ state_file \in {None, Some(CalibratedRoll(variant))}
    /\ status_msg = "Ready"
    /\ pc = "idle" /\ handler = "none" /\ attempt = 0 /\ aligned = FALSE
    /\ serial_out = Some(Cmd("E", 0))
    /\ keys = 0
    /\ image = MissingImage
    /\ out_opt = None /\ out_dbg = None /\ out_cmd = None
    /\ CalIdle /\ StepIdle /\ StreamIdle /\ CountIdle /\ GapIdle
    /\ cal_succeeded = (state_file # None)
    /\ PreviewIdle /\ ShotIdle /\ VerifyIdle /\ MonitorIdle
    /\ position = 0
    /\ frame_advance = None
    /\ mode = "manual"
    /\ strip_count = 0 /\ frames_in_strip = 0 /\ frame1_pos = None
    /\ cal_result = "none" /\ arduino = TRUE /\ motor_writes = 0

\* new_strip up to its positioning loop, scanner_app_v2.py lines 313-321
\* (key S).  cal_result holds the outcome of the handler.
V2_KeyS ==
    /\ variant = "v2" /\ pc = "idle"
    /\ ReadManualKey
    /\ Man_Set(IF ~roll_name
               THEN [Man_Now EXCEPT !.status_msg = "Create roll first"]
               ELSE IF frame_advance = None
               THEN [Man_Now EXCEPT !.status_msg = "Calibrate first",
                                    !.cal_result = "calibrate_first"]
               ELSE [Man_Now EXCEPT !.pc = "strip_frame1",
                                    !.cal_result = "strip_open"])

\* new_strip, the positioning loop for frame 1 of the strip (lines
\* 335-392): arrows move the film, SPACE captures the frame and starts the
\* strip, Q returns.
V2_StripKey ==
    /\ variant = "v2" /\ pc = "strip_frame1"
    /\ ReadManualKey
    /\ \E op \in {"f", "b", "F", "B", "q", "space"}, cam_ok \in BOOLEAN,
          env \in Envs(variant) :
         LET shot == Man_captured(Man_Now, cam_ok)
         IN  Man_Set(
               IF op = "q"
               THEN [Man_Now EXCEPT !.pc = "idle"]
               ELSE IF op = "space"
               THEN IF shot.ok
                    THEN [Man_saved([shot EXCEPT
                                       !.strip_count = @ + 1,
                                       !.frames_in_strip = 1])
                          EXCEPT !.pc = "idle",
                                 !.cal_result = "strip_started",
                                 !.status_msg = "Strip started"]
                    ELSE [shot EXCEPT !.pc = "idle"]
               ELSE Man_sent(Man_Now, Cmd(op, 0), TRUE, env))

\* web_app.py, route /api/new_strip.
Web_new_strip ==
    /\ variant = "web" /\ pc = "idle"
    /\ ReadManualKey
    /\ \E action \in {"start", "capture_first"}, cam_ok \in BOOLEAN :
         LET shot == Man_captured(Man_Now, cam_ok)
         IN  Man_Set(
               IF ~roll_name
               THEN Man_Now
               ELSE IF frame_advance = None
               THEN [Man_Now EXCEPT !.cal_result = "calibrate_first"]
               ELSE IF action = "start"
               THEN [Man_Now EXCEPT !.frames_in_strip = 0,
                                    !.cal_result = "strip_open"]
               ELSE IF shot.ok
               THEN [Man_saved([shot EXCEPT !.strip_count = @ + 1,
                                            !.frames_in_strip = 1])
                     EXCEPT !.cal_result = "strip_started",
                            !.status_msg = "Strip started"]
               ELSE shot)

NextStrip ==
    \/ Man_KeyN \/ Man_Move \/ Man_Toggle
    \/ V2_KeyC \/ V2_CalKey \/ V2_CalFrame1 \/ V2_CalFrame2
    \/ Web_calibrate
    \/ V2_KeySpace \/ Web_capture
    \/ V2_KeyS \/ V2_StripKey \/ Web_new_strip

SpecStrip == InitStrip /\ [][NextStrip]_vars

\* A step of capture_frame (key SPACE of the main loop) with a roll open.
V2_capture_frame_step ==
    /\ variant = "v2" /\ roll_name /\ pc = "idle" /\ pc' = "idle"
    /\ keys' = keys + 1
    /\ status_msg' \in {"Ready for next", "Advance failed",
                        "Frame complete", "Capture failed"}
    /\ status_msg' # status_msg \/ frame_count' # frame_count

\* C31 as stated: in calibrated mode every successful capture_frame is
\* followed by exactly one advance command of frame_advance steps, and a
\* failed capture by no advance and no counter change.
C31_AdvanceOfFrameAdvance ==
    [][(V2_capture_frame_step /\ mode = "calibrated")
         => IF frame_count' = frame_count + 1
            THEN /\ frame_advance # None
                 /\ motor_writes' = 1
                 /\ serial_out' = Some(Cmd("H", Val(frame_advance)))
            ELSE /\ frame_count' = frame_count
                 /\ frames_in_strip' = frames_in_strip
                 /\ motor_writes' = 0 /\ position' = position]_vars

\* C31 amended: in calibrated mode every successful capture_frame is
\* followed by exactly one attempt to send an advance command, of
\* frame_advance steps or of the default advance when no calibration is
\* stored; the state saved by the capture holds the position before the
\* advance; a failed capture is followed by no advance and no counter
\* change.
C31_AdvanceAfterCapture ==
    [][(V2_capture_frame_step /\ mode = "calibrated")
         => IF frame_count' = frame_count + 1
            THEN LET n == IF frame_advance = None THEN default_advance
                          ELSE Val(frame_advance)
                 IN  /\ frames_in_strip' = frames_in_strip + 1
                     /\ Val(state_file').frame_count = frame_count + 1
                     /\ Val(state_file').position = position
                     /\ \/ /\ motor_writes' = 1
                           /\ serial_out' = Some(Cmd("H", n))
                           /\ position' = position + n
                           /\ status_msg' = "Ready for next"
                        \/ /\ motor_writes' = 0
                           /\ serial_out' = serial_out
                           /\ position' = position
                           /\ status_msg' = "Advance failed"
            ELSE /\ frame_count' = frame_count
                 /\ frames_in_strip' = frames_in_strip
                 /\ state_file' = state_file
                 /\ motor_writes' = 0 /\ position' = position
                 /\ serial_out' = serial_out]_vars

\* A calibrated roll: a frame was captured and the film then advanced by
\* the stored frame_advance.
C31_Witness ==
    /\ variant = "v2" /\ mode = "calibrated" /\ frame_advance # None
    /\ status_msg = "Ready for next" /\ motor_writes = 1
    /\ serial_out = Some(Cmd("H", Val(frame_advance)))
    /\ Val(state_file).position + Val(frame_advance) = position


-----------------------------------------------------------------------------
(* new_strip and the calibration it relies on.                              *)

\* A call of new_strip with a roll open: key S of scanner_app_v2.py, a
\* request to /api/new_strip of web_app.py.
New_strip_step ==
    /\ variant \in StripVariants /\ roll_name /\ pc = "idle"
    /\ keys' = keys + 1
    /\ cal_result' \in {"calibrate_first", "strip_open", "strip_started"}

\* C32: as long as no calibration of the roll has returned success,
\* new_strip is rejected with 'Calibrate first'.
C32_NewStripNeedsCalibration ==
    [][(New_strip_step /\ ~cal_succeeded)
         => cal_result' = "calibrate_first"]_vars


-----------------------------------------------------------------------------
(* capture_image of the streaming web apps: termination.                    *)

\* Every request thread keeps running, and a thread that waits in
\* camera_op_lock.acquire() gets the lock if it is free again and again.
FairStream ==
    /\ SpecStream
    /\ \A r \in Requests : /\ SF_vars(Cap_acquire(r))
                           /\ WF_vars(Cap_gphoto(r))
                           /\ WF_vars(Cap_finally(r))

\* C33: every call of capture_image terminates, and it returns with
\* camera_op_lock free.
C33_CaptureTerminates ==
    \A r \in Requests :
        (capture_pc[r] = "acquire")
            ~> (capture_pc[r] = "idle" /\ ~camera_op_lock)


-----------------------------------------------------------------------------
(* web_app_preview_stream.py: start_preview, stop_preview and the worker    *)
(* threads they create, one behaviour per sequence of requests.             *)

\* A thread is alive from start() until _preview_loop has returned.
Wk_alive(w) == worker_pc[w] \notin {"unborn", "done"}

Wk_running == {w \in Workers : Wk_alive(w)}

\* What is left alone by the preview requests and workers.
Wk_Rest ==
    <<sessionVars, runVars, detectVars, calVars, alignVars, stepVars,
      manualVars, camera_op_lock, preview_pc, capture_pc, capture_depth,
      last_capture_failed, status_pc, camera_connected, viewfinder_enabled,
      countVars, gapVars, cal_succeeded, shotVars, verifyVars,
      monitorVars>>

InitPreview ==
    /\ variant = "stream"
    /\ ControllerIdle
    /\ StreamIdle

\* start_preview, lines 223-229: returns when the thread it knows of is
\* alive; else clears the event and starts a new thread.
Wk_start_preview ==
    /\ ctl_pc = "idle"
    /\ IF preview_thread # None /\ Wk_alive(Val(preview_thread))
       THEN UNCHANGED <<preview_stop, worker_pc, preview_thread>>
       ELSE \E w \in Workers :
              /\ worker_pc[w] = "unborn"
              /\ \A u \in Workers : u < w => worker_pc[u] # "unborn"
              /\ preview_stop' = FALSE
              /\ worker_pc' = [worker_pc EXCEPT ![w] = "viewfinder_on"]
              /\ preview_thread' = Some(w)
    /\ UNCHANGED <<Wk_Rest, last_frame, ctl_pc>>

\* stop_preview, lines 231-233: sets the event and goes into
\* join(timeout=2).
Wk_stop_preview ==
    /\ ctl_pc = "idle"
    /\ preview_stop' = TRUE
    /\ ctl_pc' = "join"
    /\ UNCHANGED <<Wk_Rest, last_frame, worker_pc, preview_thread>>

\* stop_preview, lines 233-235: join returns, because the thread has ended
\* or because the 2 s are over (the worker may be inside a gphoto2 call of
\* up to 2 s or 3 s); then the thread is forgotten.
Wk_join ==
    /\ ctl_pc = "join"
    /\ preview_thread' = None
    /\ ctl_pc' = "idle"
    /\ UNCHANGED <<Wk_Rest, last_frame, preview_stop, worker_pc>>

\* _preview_loop before and after the while loop: gphoto2 --set-config
\* viewfinder=1 / viewfinder=0; after the second the thread ends.
Wk_viewfinder(w) ==
    /\ worker_pc[w] \in {"viewfinder_on", "viewfinder_off"}
    /\ worker_pc' = [worker_pc EXCEPT ![w] =
                        IF @ = "viewfinder_on" THEN "test" ELSE "done"]
    /\ UNCHANGED <<Wk_Rest, last_frame, preview_stop, preview_thread,
                   ctl_pc>>

\* _preview_loop, lines 181-186: the head of the while loop.
Wk_test(w) ==
    /\ worker_pc[w] = "test"
    /\ worker_pc' = [worker_pc EXCEPT ![w] =
                        preview_tick(preview_stop, camera_op_lock)]
    /\ UNCHANGED <<Wk_Rest, last_frame, preview_stop, preview_thread,
                   ctl_pc>>

\* _preview_loop, lines 188-211: the end of gphoto2 --capture-preview and
\* of the pacing sleep.
Wk_gphoto(w) ==
    /\ worker_pc[w] \in {"gphoto", "skip"}
    /\ \E frame \in BOOLEAN :
         last_frame' = IF worker_pc[w] = "gphoto" /\ frame THEN TRUE
                       ELSE last_frame
    /\ worker_pc' = [worker_pc EXCEPT ![w] = "test"]
    /\ UNCHANGED <<Wk_Rest, preview_stop, preview_thread, ctl_pc>>

NextPreview ==
    \/ Wk_start_preview \/ Wk_stop_preview \/ Wk_join
    \/ \E w \in Workers : Wk_viewfinder(w)
    \/ \E w \in Workers : Wk_test(w)
    \/ \E w \in Workers : Wk_gphoto(w)

SpecPreview == InitPreview /\ [][NextPreview]_vars

\* C34: at most one preview worker thread is running at any time.
C34_OneWorker == Cardinality(Wk_running) <= 1


-----------------------------------------------------------------------------
(* scanner_app_improved.py: the alignment loop when the preview file may    *)
(* be one that cv2.imread cannot decode.                                    *)

\* capture_preview returns os.path.exists(/tmp/preview.jpg); the file may
\* be a scene or a file that is not a readable image.
PreviewFiles(v) == SessionImages(v) \cup {MissingImage}

\* One iteration of the for loop over such a preview file.
Imp_AlignStepFile ==
    \E preview_ok \in BOOLEAN, img \in PreviewFiles(variant),
       fl \in FloatLoss(pixels_per_step), write_ok \in BOOLEAN :
        /\ Imp_for_attempt(preview_ok, img, fl, write_ok)
        /\ UNCHANGED alignVars

\* Alignment loops followed per behaviour.
MaxFileKeys == 1

NextFile ==
    \/ keys < MaxFileKeys /\ Imp_KeyA
    \/ keys < MaxFileKeys /\ Imp_KeySpace
    \/ Imp_AlignStepFile
    \/ Imp_Capture

SpecFile == InitAlign /\ [][NextFile]_vars

\* C35: an alignment step whose detector result is ERROR (the preview
\* cannot be read) issues no motor command and leaves the tracked position
\* unchanged.
C35_ErrorResultNoMotion ==
    [][(/\ pc = "align" /\ attempt' = attempt + 1
        /\ out_opt' # None /\ Val(out_opt').status = "ERROR")
         => /\ position_steps' = position_steps
            /\ serial_out' = serial_out
            /\ (out_cmd' = None \/ Val(out_cmd').op = "none")]_vars


-----------------------------------------------------------------------------
(* web_app.py: the captures of a calibrated strip, with no manual jog.      *)

\* The session as a successful calibration leaves it: frame 2 has just been
\* captured at the position the film is at.
InitShots ==
    /\ variant = "web"
    /\ roll_name = TRUE
    /\ frame_count = CalibratedRoll(variant).frame_count
    /\ position_steps = 0
    /\ pixels_per_step = DefaultPixelsPerStep
    /\ last_frame_advance = None
    /\ state_file = Some(CalibratedRoll(variant))
    /\ status_msg = "Calibrated"
    /\ pc = "idle" /\ handler = "none" /\ attempt = 0 /\ aligned = FALSE
    /\ serial_out = Some(Cmd("E", 0))
    /\ keys = 0
    /\ image = MissingImage
    /\ out_opt = None /\ out_dbg = None /\ out_cmd = None
    /\ CalIdle /\ StepIdle /\ StreamIdle /\ CountIdle /\ GapIdle
    /\ cal_succeeded = TRUE /\ PreviewIdle /\ VerifyIdle /\ MonitorIdle
    /\ position = CalibratedRoll(variant).position
    /\ frame_advance = CalibratedRoll(variant).frame_advance
    /\ mode = CalibratedRoll(variant).mode
    /\ strip_count = CalibratedRoll(variant).strip_count
    /\ frames_in_strip = CalibratedRoll(variant).frames_in_strip
    /\ frame1_pos = None
    /\ cal_result = "none" /\ arduino = TRUE /\ motor_writes = 0
    /\ steps_since_shot = 0

\* /api/capture, and what it has made the motor do: each write of the
\* H command moves the film by frame_advance.
Shot_capture ==
    /\ variant = "web" /\ pc = "idle"
    /\ ReadManualKey
    /\ \E cam_ok \in BOOLEAN, env \in Envs(variant) :
         LET s == Web_captured(cam_ok, env)
         IN  /\ Man_Assign(s)
             /\ steps_since_shot' =
                    IF s.frame_count = frame_count + 1 THEN 0
                    ELSE steps_since_shot
                           + s.motor_writes * Val(frame_advance)
             /\ UNCHANGED verifyVars

NextShots == Shot_capture \/ Man_Toggle

SpecShots == InitShots /\ [][NextShots]_vars

\* C36: in calibrated mode the motor has advanced exactly frame_advance
\* steps between two consecutive successful captures of a strip, failed
\* attempts in between included.
C36_OneAdvancePerFrame ==
    [][(/\ frame_count' = frame_count + 1
        /\ mode = "calibrated" /\ frames_in_strip > 0
        /\ strip_count' = strip_count /\ frame_advance # None)
         => steps_since_shot + motor_writes' * Val(frame_advance)
                = Val(frame_advance)]_vars


-----------------------------------------------------------------------------
(* scanner_hybrid.py: capture_frame with its verification loop, attempt by  *)
(* attempt.                                                                 *)

HYBRID_VERIFY_ATTEMPTS == 5
HYBRID_GAP_STEP == 10

\* What one attempt meets: preview() fails, or the preview shows the gap
\* between two frames, or it shows frame content.
VerifyOutcomes == {"failed", "gap", "content"}
VerifyScenes == [1 .. HYBRID_VERIFY_ATTEMPTS -> VerifyOutcomes]

has_content_assumed(cv2_imported, outcome) == TRUE

\* capture_frame, lines 188-192: check_has_content when cv2 was imported,
\* else True.
has_content(cv2_imported, outcome) ==
    IF cv2_imported THEN outcome = "content" ELSE TRUE

\* capture_frame, lines 180-207: the for loop from attempt a on.  found
\* stays FALSE when the loop runs out (the else of the for).
RECURSIVE verify_loop(_, _, _, _)
verify_loop(st, a, scene, env) ==
    IF a > HYBRID_VERIFY_ATTEMPTS
    THEN st
    ELSE IF scene[a] = "failed"
    THEN verify_loop([st EXCEPT !.attempts = a], a + 1, scene, env)
    ELSE IF has_content(has_cv2, scene[a])
    THEN [st EXCEPT !.attempts = a, !.found = TRUE, !.seen = scene[a]]
    ELSE LET sent == Man_sent(st.obj, Cmd("H", HYBRID_GAP_STEP), TRUE, env)
         IN  verify_loop([st EXCEPT !.attempts = a, !.gaps = @ + 1,
                                    !.nudges = @ + sent.motor_writes,
                                    !.obj = sent],
                         a + 1, scene, env)

\* key SPACE with a roll open: capture_frame.
Hyb_capture_frame ==
    /\ variant = "hybrid" /\ pc = "idle" /\ roll_name
    /\ ReadManualKey
    /\ \E scene \in VerifyScenes, cam_ok \in BOOLEAN, env \in Envs(variant) :
         LET moved == IF frame_count > 0
                      THEN Man_sent(Man_Now, Cmd("H", Val(frame_advance)),
                                    TRUE, env)
                      ELSE Man_Now
             v == verify_loop([obj |-> moved, attempts |-> 0, gaps |-> 0,
                               nudges |-> 0, found |-> FALSE,
                               seen |-> "none"], 1, scene, env)
             shot == Man_captured(v.obj, cam_ok)
         IN  /\ Man_Assign(
                  IF ~v.found
                  THEN [v.obj EXCEPT !.status_msg = "No frame found"]
                  ELSE [shot EXCEPT !.status_msg =
                          IF shot.ok THEN "Frame complete"
                          ELSE "Capture failed"])
             /\ out_verify' = Some([key |-> keys + 1,
                                    attempts |-> v.attempts,
                                    gaps |-> v.gaps, nudges |-> v.nudges,
                                    found |-> v.found, seen |-> v.seen,
                                    advance |-> moved.position - position,
                                    link |-> env.fault1 = "none"])
             /\ UNCHANGED <<shotVars, has_cv2>>

InitVerify ==
    /\ variant = "hybrid"
    /\ roll_name = FALSE
    /\ frame_count = 0
    /\ position_steps = 0
    /\ pixels_per_step = DefaultPixelsPerStep
    /\ last_frame_advance = None
    /\ state_file = None
    /\ status_msg = "Ready"
    /\ pc = "idle" /\ handler = "none" /\ attempt = 0 /\ aligned = FALSE
    /\ serial_out = Some(Cmd("E", 0))
    /\ keys = 0
    /\ image = MissingImage
    /\ out_opt = None /\ out_dbg = None /\ out_cmd = None
    /\ CalIdle /\ StepIdle /\ StreamIdle /\ CountIdle /\ GapIdle
    /\ cal_succeeded = FALSE /\ PreviewIdle /\ ShotIdle /\ MonitorIdle
    /\ has_cv2 \in BOOLEAN /\ out_verify = None
    /\ position = 0
    /\ frame_advance = Some(HYBRID_FRAME_ADVANCE)
    /\ mode = "manual"
    /\ strip_count = 0 /\ frames_in_strip = 0 /\ frame1_pos = None
    /\ cal_result = "none" /\ arduino = TRUE /\ motor_writes = 0

\* Keys read per behaviour.
MaxVerifyKeys == 3

NextVerify ==
    \/ keys < MaxVerifyKeys /\ Man_KeyN
    \/ keys < MaxVerifyKeys /\ Hyb_capture_frame

SpecVerify == InitVerify /\ [][NextVerify]_vars

\* A step of capture_frame.
Hyb_capture_frame_step ==
    /\ variant = "hybrid" /\ keys' = keys + 1
    /\ out_verify' # None /\ Val(out_verify').key = keys'

\* What C37 says of every capture_frame but for the preview that precedes
\* a capture: at most 5 verification attempts, 10 steps after each attempt
\* that shows no content, and failure without a capture when all attempts
\* fail.
Verify_loop_bounds(v) ==
    /\ v.attempts <= HYBRID_VERIFY_ATTEMPTS
    /\ v.gaps <= v.attempts
    /\ v.nudges = IF v.link THEN v.gaps ELSE 0
    /\ position' = position + v.advance + HYBRID_GAP_STEP * v.nudges
    /\ ~v.found => /\ v.attempts = HYBRID_VERIFY_ATTEMPTS
                   /\ frame_count' = frame_count
                   /\ state_file' = state_file
                   /\ status_msg' = "No frame found"

-----------------------------------------------------------------------------
(* The counters of a session across rolls.                                  *)

\* C38: in every reachable state of a session frames_in_strip <= frame_count;
\* a roll started over keeps no counter of the previous session above the
\* reset frame_count.
C38_StripWithinRoll == frames_in_strip <= frame_count


-----------------------------------------------------------------------------
(* canon_wifi.py: connect, disconnect and the connection monitor threads.   *)

MONITOR_FAILURES == 3

Mon_alive(m) == monitors[m].pc \notin {"unborn", "done"}

\* What the camera object's methods and threads leave alone.
Mon_Rest ==
    <<sessionVars, runVars, detectVars, calVars, alignVars, stepVars,
      manualVars, streamVars, countVars, gapVars, cal_succeeded,
      previewVars, shotVars, verifyVars>>

InitMonitor ==
    /\ variant = "wifi"
    /\ ControllerIdle
    /\ StreamIdle

\* connect(camera_ip), lines 116-157: the address is stored, the camera
\* asked for its device information; on status 200 connected is set and
\* _start_connection_monitor (176-184) starts a thread unless the one it
\* knows of is alive.
Wifi_connect ==
    /\ \E reached \in BOOLEAN :
         /\ camera_ip' = TRUE
         /\ IF ~reached
            THEN UNCHANGED <<wifi_connected, monitor_thread, monitors>>
            ELSE /\ wifi_connected' = TRUE
                 /\ IF monitor_thread # None
                         /\ Mon_alive(Val(monitor_thread))
                    THEN UNCHANGED <<monitor_thread, monitors>>
                    ELSE \E m \in MonitorIds :
                           /\ monitors[m].pc = "unborn"
                           /\ \A u \in MonitorIds :
                                u < m => monitors[u].pc # "unborn"
                           /\ monitor_thread' = Some(m)
                           /\ monitors' =
                                [monitors EXCEPT ![m].pc = "test"]
    /\ UNCHANGED <<Mon_Rest, lost_calls, fail_run>>

\* disconnect(), lines 159-174.
Wifi_disconnect ==
    /\ wifi_connected \/ camera_ip
    /\ monitor_thread' = None
    /\ wifi_connected' = FALSE
    /\ camera_ip' = FALSE
    /\ UNCHANGED <<Mon_Rest, monitors, lost_calls, fail_run>>

\* _connection_monitor_loop, line 190: while self.connected.
Mon_test(m) ==
    /\ monitors[m].pc = "test"
    /\ monitors' = [monitors EXCEPT ![m].pc =
                       IF wifi_connected THEN "sleep" ELSE "done"]
    /\ UNCHANGED <<Mon_Rest, wifi_connected, camera_ip, monitor_thread,
                   lost_calls, fail_run>>

\* _connection_monitor_loop, lines 193-209, after the sleep of 5 s:
\* check_connection (215-228) is False without an address, else what the
\* camera answers; the third failure in a row declares the connection lost.
Mon_check(m) ==
    /\ monitors[m].pc = "sleep"
    /\ \E answered \in BOOLEAN :
         LET ok == camera_ip /\ answered
             n == IF ok THEN 0 ELSE monitors[m].failures + 1
             lost == ~ok /\ n >= MONITOR_FAILURES
         IN  /\ monitors' = [monitors EXCEPT
                                ![m] = [pc |-> IF lost THEN "done"
                                               ELSE "test",
                                        failures |-> n]]
             /\ wifi_connected' = IF lost THEN FALSE ELSE wifi_connected
             /\ lost_calls' = IF lost THEN lost_calls + 1 ELSE lost_calls
             /\ fail_run' = IF ok THEN 0 ELSE fail_run + 1
    /\ UNCHANGED <<Mon_Rest, camera_ip, monitor_thread>>

NextMonitor ==
    \/ Wifi_connect \/ Wifi_disconnect
    \/ \E m \in MonitorIds : Mon_test(m)
    \/ \E m \in MonitorIds : Mon_check(m)

SpecMonitor == InitMonitor /\ [][NextMonitor]_vars

\* C39: the connection is declared lost (connected = False, callback
\* invoked, loop ended) only after 3 consecutive failed connection checks;
\* a successful check resets the count of failures.
C39_LostAfterThreeFailures ==
    [][lost_calls' = lost_calls + 1
         => /\ fail_run' >= MONITOR_FAILURES
            /\ ~wifi_connected']_vars

=============================================================================
